---- MODULE Spec2Model ----
(***************************************************************************)
(* sit - StuffIt 1.5.1 archive writer (src/sit.c, src/sit.h,               *)
(* src/appledouble.c).  The model is byte exact: the output archive is a   *)
(* sequence of bytes, the write cursor is an offset into it, and every     *)
(* header is serialised field by field as the C structs lay it out.        *)
(* One action stands for one call of put_file / put_folder_entry or one    *)
(* iteration of the loops of main and put_folder; the recursion of         *)
(* put_folder is an explicit stack of directory frames.                    *)
(***************************************************************************)
EXTENDS Integers, Sequences, FiniteSets, TLC

(* ------------------------------ bounds --------------------------------- *)
\* number of file/directory arguments on the command line
MaxArgs == 2
\* deepest directory nesting explored (1 = a top-level folder only)
MaxDepth == 2
\* directory entries returned by readdir over a whole run
MaxEntries == 2
\* output seek/write failures injected over a whole run
MaxFaults == 1
\* longest name for which every byte sequence over NameAlphabet is tried
MaxTyped == 3
\* most descriptors in the table of a sidecar file handed to the parser
MaxTable == 3
\* objects of a filesystem handed to the traversal
MaxNodes == 4
\* parts of an article handed to macbinfilt
MaxParts == 4

(* -------------------------- program constants -------------------------- *)
SitHdrSize == 22
FileHdrSize == 112
noComp == 0
lzwComp == 2
startFolder == 32
endFolder == 33
\* field offsets of struct fileHdr (0-based, as in C)
oCompRMethod == 0
oCompDMethod == 1
oFName == 2
oFType == 66
oFCreator == 70
oFndrFlags == 74
oCDate == 76
oMDate == 80
oRLen == 84
oDLen == 88
oCRLen == 92
oCDLen == 96
oRsrcCRC == 100
oDataCRC == 102
oHdrCRC == 110
\* field offsets of struct sitHdr
oNumFiles == 4
oArcLen == 6
oSig2 == 10
oVersion == 14
\* name field capacity handed to the transcoder (a STR63)
MaxNameLen == 63
\* AppleDouble magic number 0x00051607 and the entry ids looked for
AS_MAGIC_AD == 333319
RESOURCE_FORK_ID == 2
FINDER_INFO_ID == 9
\* TIMEDIFF 0x7c25b080 as the four big-endian bytes cp4 would store
TIMEDIFF == <<124, 37, 176, 128>>

(* ----------------------------- byte helpers ----------------------------- *)
Min(a, b) == IF a < b THEN a ELSE b
Max(a, b) == IF a > b THEN a ELSE b
Zeros(n) == [i \in 1..n |-> 0]
\* the one element of a singleton set: { e(x) : x \in {v} } computes v once
\* and names it x, which keeps a long header computation from being redone
\* at every place its result is used
Only(S) == CHOOSE x \in S : TRUE

\* buf with bytes stored at 0-based offset off (a field assignment / memcpy)
Put(buf, off, bytes) ==
  Only({ SubSeq(b, 1, off) \o v \o SubSeq(b, off + Len(v) + 1, Len(b))
         : b \in {buf}, v \in {bytes} })

\* the n bytes of buf at 0-based offset off
Get(buf, off, n) == SubSeq(buf, off + 1, off + n)

\* cp2: a 16-bit value, big-endian
cp2(x) == Only({ << (v \div 256) % 256, v % 256 >> : v \in {x} })

\* a 32-bit value stored least significant byte first
cp4le(x) ==
  Only({ LET y == IF v >= 0 THEN v ELSE (v + 2147483647) + 1
         IN << y % 256, (y \div 256) % 256, (y \div 65536) % 256,
               IF v >= 0 THEN (y \div 16777216) % 256
               ELSE 128 + ((y \div 16777216) % 128) >>
         : v \in {x} })

\* cp4: a 32-bit value, big-endian (negative values in two's complement)
cp4(x) ==
  Only({ LET y == IF v >= 0 THEN v ELSE (v + 2147483647) + 1
         IN << IF v >= 0 THEN (y \div 16777216) % 256
               ELSE 128 + ((y \div 16777216) % 128),
               (y \div 65536) % 256, (y \div 256) % 256, y % 256 >>
         : v \in {x} })

be16(b) == b[1] * 256 + b[2]
\* a big-endian 32-bit field read back as a number (fields here stay below 2^31)
be32(b) == ((b[1] * 256 + b[2]) * 256 + b[3]) * 256 + b[4]

\* 32-bit wrap-around sum of two big-endian 4-byte values: (a + b) stored by cp4
Add32(a, b) ==
  Only({ LET s4 == x[4] + y[4]
             s3 == x[3] + y[3] + (s4 \div 256)
             s2 == x[2] + y[2] + (s3 \div 256)
             s1 == x[1] + y[1] + (s2 \div 256)
         IN << s1 % 256, s2 % 256, s3 % 256, s4 % 256 >>
         : x \in {a}, y \in {b} })

\* strncpy(dst, src, n): copies up to the first NUL, pads the rest with NULs
RECURSIVE StrLen(_, _)
StrLen(src, i) ==
  IF i > Len(src) \/ src[i] = 0 THEN i - 1 ELSE StrLen(src, i + 1)
strncpy(src, n) ==
  Only({ LET l == Min(StrLen(s, 1), n)
         IN SubSeq(s, 1, l) \o Zeros(n - l)
         : s \in {src} })

(* --------------------------- running checksum --------------------------- *)
\* One input bit through the 16-bit register (reflected polynomial 0xA001).
XorPoly(s) ==
  LET a == s + 32768
      b == IF (a \div 8192) % 2 = 1 THEN a - 8192 ELSE a + 8192
  IN IF b % 2 = 1 THEN b - 1 ELSE b + 1

CrcBit(crc, bit) ==
  Only({ IF (c + bit) % 2 = 1 THEN XorPoly(c \div 2) ELSE c \div 2
         : c \in {crc} })

CrcByte(crc, b) ==
  CrcBit(CrcBit(CrcBit(CrcBit(CrcBit(CrcBit(CrcBit(CrcBit(crc,
    b % 2), (b \div 2) % 2), (b \div 4) % 2), (b \div 8) % 2),
    (b \div 16) % 2), (b \div 32) % 2), (b \div 64) % 2), (b \div 128) % 2)

\* the register after bytes lo..hi of icp, by halves (the order of the bytes
\* is kept: the left half goes through the register first)
RECURSIVE CrcRange(_, _, _, _)
CrcRange(crc, icp, lo, hi) ==
  IF lo > hi THEN crc
  ELSE IF lo = hi THEN CrcByte(crc, icp[lo])
  ELSE Only({ CrcRange(c, icp, ((lo + hi) \div 2) + 1, hi)
              : c \in {CrcRange(crc, icp, lo, (lo + hi) \div 2)} })

\* updcrc(icrc, icp, icnt): the running 16-bit checksum, initial state 0
updcrc(icrc, icp) == Only({ CrcRange(icrc, s, 1, Len(s)) : s \in {icp} })

(* ------------------------ legacy name transcoder ------------------------ *)
\* hiBitCharMap: UTF-8 sequence (2 bytes and 0, or 3 bytes), then the Mac byte
hiBitCharMap == <<
    <<195,132,0,128>>, <<195,133,0,129>>, <<195,135,0,130>>, <<195,137,0,131>>, <<195,145,0,132>>, <<195,150,0,133>>,
    <<195,156,0,134>>, <<195,161,0,135>>, <<195,160,0,136>>, <<195,162,0,137>>, <<195,164,0,138>>, <<195,163,0,139>>,
    <<195,165,0,140>>, <<195,167,0,141>>, <<195,169,0,142>>, <<195,168,0,143>>, <<195,170,0,144>>, <<195,171,0,145>>,
    <<195,173,0,146>>, <<195,172,0,147>>, <<195,174,0,148>>, <<195,175,0,149>>, <<195,177,0,150>>, <<195,179,0,151>>,
    <<195,178,0,152>>, <<195,180,0,153>>, <<195,182,0,154>>, <<195,181,0,155>>, <<195,186,0,156>>, <<195,185,0,157>>,
    <<195,187,0,158>>, <<195,188,0,159>>, <<226,128,160,160>>, <<194,176,0,161>>, <<194,162,0,162>>, <<194,163,0,163>>,
    <<194,167,0,164>>, <<226,128,162,165>>, <<194,182,0,166>>, <<195,159,0,167>>, <<194,174,0,168>>, <<194,169,0,169>>,
    <<226,132,162,170>>, <<194,180,0,171>>, <<194,168,0,172>>, <<226,137,160,173>>, <<195,134,0,174>>, <<195,152,0,175>>,
    <<226,136,158,176>>, <<194,177,0,177>>, <<226,137,164,178>>, <<226,137,165,179>>, <<194,165,0,180>>, <<194,181,0,181>>,
    <<226,136,130,182>>, <<226,136,145,183>>, <<226,136,143,184>>, <<207,128,0,185>>, <<226,136,171,186>>, <<194,170,0,187>>,
    <<194,186,0,188>>, <<206,169,0,189>>, <<195,166,0,190>>, <<195,184,0,191>>, <<194,191,0,192>>, <<194,161,0,193>>,
    <<194,172,0,194>>, <<226,136,154,195>>, <<198,146,0,196>>, <<226,137,136,197>>, <<226,136,134,198>>, <<194,171,0,199>>,
    <<194,187,0,200>>, <<226,128,166,201>>, <<194,160,0,202>>, <<195,128,0,203>>, <<195,131,0,204>>, <<195,149,0,205>>,
    <<197,146,0,206>>, <<197,147,0,207>>, <<226,128,147,208>>, <<226,128,148,209>>, <<226,128,156,210>>, <<226,128,157,211>>,
    <<226,128,152,212>>, <<226,128,153,213>>, <<195,183,0,214>>, <<226,151,138,215>>, <<195,191,0,216>>
>>

\* a third byte compared wherever it lies
ThirdAnywhere(remaining) == TRUE

\* line 820: the third byte of a sequence is looked at only when more than
\* two bytes remain
ThirdInWindow(remaining) == remaining > 2

\* the table rows the inner for loop would break on, for lead byte c at a
\* position with `remaining` usable bytes, next bytes p1 and p2
MapHits(c, p1, p2, remaining) ==
  { i \in 1..Len(hiBitCharMap) :
      /\ hiBitCharMap[i][1] = c
      /\ hiBitCharMap[i][2] = p1
      /\ \/ hiBitCharMap[i][3] = 0
         \/ ThirdInWindow(remaining) /\ p2 = hiBitCharMap[i][3] }

FirstHit(S) == CHOOSE i \in S : \A j \in S : i <= j

At(s, i) == IF i <= Len(s) THEN s[i] ELSE 0

\* how far past position p the for loop looks: the rows it visits are those
\* up to the one it breaks on; *(p+1) is read for a row with lead byte c,
\* *(p+2) for such a row whose second byte matched and whose third is not 0,
\* when more than two bytes remain
LookAhead(c, p1, remaining, hits) ==
  LET visited == IF hits = {} THEN 1..Len(hiBitCharMap) ELSE 1..FirstHit(hits)
      lead == { i \in visited : hiBitCharMap[i][1] = c }
  IN IF \E i \in lead : /\ hiBitCharMap[i][2] = p1 /\ hiBitCharMap[i][3] # 0
                         /\ ThirdInWindow(remaining)
       THEN 2
     ELSE IF lead # {} THEN 1
     ELSE 0

\* a byte stored as it is, colon or not
KeepColon(c) == c

\* line 829: a colon becomes a slash
ColonToSlash(c) == IF c = 58 THEN 47 ELSE c

\* one pass of the while loop body on the loop state s: p is the 1-based read
\* position, tmp the bytes stored so far, trace the passes made (where, with
\* how many bytes remaining, the byte found, bytes consumed, byte stored,
\* last position read); a state with nothing remaining is left as it is
ConvStep(fsName, s) ==
  IF s.remaining <= 0 THEN s
  ELSE
    LET c == fsName[s.p]
        high == c >= 128 /\ s.remaining > 1
        hits == IF high
                  THEN MapHits(c, At(fsName, s.p + 1), At(fsName, s.p + 2),
                               s.remaining)
                  ELSE {}
        read == IF high
                  THEN s.p + LookAhead(c, At(fsName, s.p + 1), s.remaining, hits)
                  ELSE s.p
        used == IF hits = {} THEN 1
                ELSE IF hiBitCharMap[FirstHit(hits)][3] = 0 THEN 2 ELSE 3
        d == IF hits # {} THEN hiBitCharMap[FirstHit(hits)][4]
             ELSE IF high THEN c
             ELSE ColonToSlash(c)
    IN [p |-> s.p + used, remaining |-> s.remaining - used,
        tmp |-> Append(s.tmp, d),
        trace |-> Append(s.trace, [p |-> s.p, remaining |-> s.remaining,
                                   c |-> c, used |-> used, out |-> d,
                                   read |-> read])]

\* n passes of the loop body, taken by halves
RECURSIVE ConvSteps(_, _, _)
ConvSteps(fsName, s, n) ==
  IF n <= 0 THEN s
  ELSE IF n = 1 THEN Only({ ConvStep(fsName, v) : v \in {s} })
  ELSE Only({ ConvSteps(fsName, v, n - n \div 2)
              : v \in {ConvSteps(fsName, s, n \div 2)} })

\* the while loop: it ends after at most `remaining` passes
ConvLoop(fsName, p, remaining, tmp) ==
  ConvSteps(fsName, [p |-> p, remaining |-> remaining, tmp |-> tmp,
                     trace |-> <<>>],
            remaining)

\* a count that takes in the whole name
NameRoomAll(len, maxLength) == len

\* a count that keeps one byte less than the field holds
NameRoomLess(len, maxLength) == Min(len, maxLength - 1)

\* remaining = min(strlen(fsName), maxLength): the input bytes looked at
NameRoom(len, maxLength) == Min(len, maxLength)

\* the Pascal string memcpy'd into the name field: length byte, then the bytes
convertFilesystemNameToMacRoman(fsName, maxLength) ==
  Only({ <<Len(tmp)>> \o tmp
         : tmp \in {ConvLoop(fsName, 1, NameRoom(Len(fsName), maxLength),
                              <<>>).tmp} })

(* --------------------------- the output file --------------------------- *)
\* The program state a call works on: the archive bytes (out), the write
\* cursor of ofd (pos), the global header buffer fh, the global crc, and the
\* history of writes made on ofd (wlog: who wrote, what, where, how much).

\* file contents after writing bytes at offset pos
WriteAt(out, pos, bytes) ==
  Only({ (IF pos <= Len(o) THEN SubSeq(o, 1, pos) ELSE o \o Zeros(pos - Len(o)))
           \o v \o SubSeq(o, pos + Len(v) + 1, Len(o))
         : o \in {out}, v \in {bytes} })

\* write(2) on ofd as safe_write sees it: all of buf, or (bad) a short count
\* of at most k bytes, which safe_write reports as an error
safe_write(m, buf, id, tag, bad, k) ==
  Only({ [m0 EXCEPT !.out = WriteAt(m0.out, m0.pos, SubSeq(buf, 1, n)),
                    !.pos = m0.pos + n,
                    !.wlog = Append(m0.wlog, [id |-> id, tag |-> tag,
                                              off |-> m0.pos, n |-> n,
                                              ok |-> ~bad])]
         : m0 \in {m}, n \in {IF bad THEN Min(k, Len(buf) - 1) ELSE Len(buf)} })

NoFault == [op |-> 0, k |-> 0]

(* ------------------------------ the inputs ------------------------------ *)
\* What the filesystem holds for the i-th object the run meets.
NameOf(i) ==
  CASE i % 4 = 1 -> <<97>>                      \* "a"
    [] i % 4 = 2 -> <<98, 58, 99>>              \* "b:c"
    [] i % 4 = 3 -> <<195, 169, 100>>           \* e-acute (UTF-8), "d"
    [] OTHER     -> <<101, 102>>                \* "ef"

\* struct stat of the i-th object: st_size is filled in by the caller
StatOf(i, size) ==
  [size |-> size, ctime |-> cp4(1700000000 + i), mtime |-> cp4(1600000000 + i),
   birthtime |-> cp4(1500000000 + i)]

DataBytes(n) == SubSeq(<<65, 10, 66, 10>>, 1, n)
RsrcBytes(n) == SubSeq(<<1, 10, 2, 3>>, 1, n)
\* what the external compressor left in the temp file after its 3-byte header
CompBytes(n) == [i \in 1..n |-> 157]

\* a name.info file as xbin writes it (struct infoHdr)
InfoHdr ==
  [name |-> <<3, 70, 111, 111>> \o Zeros(60), type |-> <<65, 80, 80, 76>>,
   creator |-> <<77, 65, 67, 83>>, flag |-> <<1, 32>>,
   ctime |-> <<160, 1, 2, 3>>, mtime |-> <<161, 4, 5, 6>>]
\* the Finder info entry of an AppleDouble sidecar
AdMeta ==
  [type |-> <<80, 73, 67, 84>>, creator |-> <<116, 116, 120, 116>>,
   flags |-> <<33, 0>>]
\* the same with Finder flags 0x000C: a colour label and nothing else
AdMetaLabel == [AdMeta EXCEPT !.flags = <<0, 12>>]

(* ------------------------- AppleDouble sidecars ------------------------- *)
\* find_appledouble_entry on the bytes of a file.  A uint32 is kept as the
\* four bytes it is read from; the result is ret (0 or -1) and the entry.
ADEntry(id, offset, size) == [id |-> id, offset |-> offset, size |-> size]
NoEntry == ADEntry(<<>>, <<>>, <<>>)

\* a count that takes every descriptor the file holds as declared
DeclaredAll(header) == 65535

\* num_entries = read_uint16_be(header + 24)
DeclaredEntries(header) == be16(SubSeq(header, 25, 26))

\* the for loop from descriptor i (0-based) on: a read of 12 bytes at
\* offset 26 + 12 i, then the comparison of its id
RECURSIVE ScanEntries(_, _, _, _)
ScanEntries(bytes, entry_id, i, num_entries) ==
  IF i >= num_entries THEN [ret |-> -1, entry |-> NoEntry]
  ELSE IF Len(bytes) < 26 + 12 * (i + 1) THEN [ret |-> -1, entry |-> NoEntry]
  ELSE
    LET entry_buf == SubSeq(bytes, 26 + 12 * i + 1, 26 + 12 * (i + 1))
    IN IF SubSeq(entry_buf, 1, 4) = cp4(entry_id)
         THEN [ret |-> 0,
               entry |-> ADEntry(SubSeq(entry_buf, 1, 4), SubSeq(entry_buf, 5, 8),
                                 SubSeq(entry_buf, 9, 12))]
         ELSE ScanEntries(bytes, entry_id, i + 1, num_entries)

\* find_appledouble_entry(fd, entry_id, &entry), bytes being the file
FindEntry(bytes, entry_id) ==
  IF Len(bytes) < 26 THEN [ret |-> -1, entry |-> NoEntry]
  ELSE IF SubSeq(bytes, 1, 4) # cp4(AS_MAGIC_AD) THEN [ret |-> -1, entry |-> NoEntry]
  ELSE ScanEntries(bytes, entry_id, 0, DeclaredEntries(SubSeq(bytes, 1, 26)))

\* What open_appledouble_file finds for a name: nothing, or a container with
\* its magic number and its descriptor table; an entry is its id, its size
\* field and the bytes that can be read at its offset.
NoSidecar == [found |-> FALSE, magic |-> 0, table |-> <<>>]
Sidecar(table) == [found |-> TRUE, magic |-> AS_MAGIC_AD, table |-> table]
RsrcEntry(size, avail) ==
  [id |-> RESOURCE_FORK_ID, size |-> size, data |-> RsrcBytes(avail)]
FinfoEntry(meta) ==
  [id |-> FINDER_INFO_ID, size |-> 32,
   data |-> meta.type \o meta.creator \o meta.flags \o Zeros(22)]

\* find_appledouble_entry: the first descriptor with the id, ok = FALSE for -1
find_appledouble_entry(ad, entry_id) ==
  LET hits == { i \in DOMAIN ad.table : ad.table[i].id = entry_id }
  IN IF ~ad.found \/ ad.magic # AS_MAGIC_AD \/ hits = {}
       THEN [ok |-> FALSE, entry |-> [id |-> 0, size |-> 0, data |-> <<>>]]
       ELSE [ok |-> TRUE,
             entry |-> ad.table[CHOOSE i \in hits : \A j \in hits : i <= j]]

\* a size taken from the first descriptor, whatever its id
SizeOfFirstEntry(ad) ==
  IF ad.found /\ ad.magic = AS_MAGIC_AD /\ ad.table # <<>>
    THEN ad.table[1].size ELSE 0

\* get_appledouble_rsrc_size: the size field of the resource entry, else 0
get_appledouble_rsrc_size(ad) ==
  LET r == find_appledouble_entry(ad, RESOURCE_FORK_ID)
  IN IF r.ok THEN r.entry.size ELSE 0

\* read_appledouble_metadata: ok = FALSE for -1
read_appledouble_metadata(ad) ==
  LET r == find_appledouble_entry(ad, FINDER_INFO_ID)
  IN IF ~r.ok \/ r.entry.size < 32 \/ Len(r.entry.data) < 32
       THEN [ok |-> FALSE, meta |-> AdMeta]
       ELSE [ok |-> TRUE,
             meta |-> [type |-> SubSeq(r.entry.data, 1, 4),
                       creator |-> SubSeq(r.entry.data, 5, 8),
                       flags |-> SubSeq(r.entry.data, 9, 10)]]
\* the type/creator/flags bytes of a struct resHdr read from a named fork
ResHdr ==
  [type |-> <<114, 115, 114, 99>>, creator |-> <<82, 83, 69, 68>>,
   fdflags |-> <<0, 1>>]
\* the first n bytes of a named resource fork that starts with that struct
\* resHdr (82 bytes, type, creator, fdflags, 36 bytes) and goes on
NamedForkBytes(n) ==
  SubSeq(Zeros(82) \o ResHdr.type \o ResHdr.creator \o ResHdr.fdflags
           \o Zeros(36) \o <<1, 10, 2, 3>>, 1, n)

\* a conversion that leaves every byte as it is
KeepBytes(content) == content

(* -------------------------------- dofork -------------------------------- *)
\* lines 678-680: every '\n' of the buffer becomes '\r'
Convert(content) ==
  [i \in 1..Len(content) |-> IF content[i] = 10 THEN 13 ELSE content[i]]

\* dofork(name, convert): content is what name holds (exists: it can be
\* opened), cdelta how much longer the compressor's output is than its input.
\* Returns the machine, the count written (clen), whether ofd failed, the
\* bytes that were handed to the compressor (fed), and how many of the
\* temporary files it made are still there (left): cmpfilename is made by
\* mkstemp at line 658 and unlinked at line 750 only, cvtfilename is made at
\* line 669 and unlinked at line 725.
dofork(m, exists, content, convert, cdelta, id, tag, bad, k) ==
  IF ~exists THEN [m |-> m, clen |-> 0, iofail |-> FALSE, fed |-> <<>>,
                   left |-> 1]
  ELSE
    LET src == IF convert THEN Convert(content) ELSE content
        m1 == [m EXCEPT !.crc = updcrc(0, src)]
        c == Max(0, Len(src) + cdelta)
    IN IF c = 0 THEN [m |-> m1, clen |-> 0, iofail |-> FALSE, fed |-> src,
                      left |-> 0]
       ELSE LET m2 == safe_write(m1, CompBytes(c), id, tag, bad, k)
            IN [m |-> m2, clen |-> IF bad THEN 0 ELSE c, iofail |-> bad,
                fed |-> src, left |-> IF bad THEN 1 ELSE 0]

(* -------------------- read_appledouble_rsrc_with_crc -------------------- *)
\* Copies the avail bytes found at the resource entry to ofd; the crc is
\* handed back only when every write went through.
read_appledouble_rsrc_with_crc(m, avail, id, bad, k) ==
  IF avail = 0 THEN [m |-> [m EXCEPT !.crc = 0], total |-> 0, iofail |-> FALSE]
  ELSE
    LET m1 == safe_write(m, RsrcBytes(avail), id, "rsrc", bad, k)
    IN IF bad THEN [m |-> m1, total |-> 0, iofail |-> TRUE]
       ELSE [m |-> [m1 EXCEPT !.crc = updcrc(0, RsrcBytes(avail))],
             total |-> avail, iofail |-> FALSE]

(* --------------------------- put_folder_entry --------------------------- *)
\* the header fields put_folder_entry fills in, before the checksum
FolderFields(name, st, tz, btime, unc, span, mtype) ==
  LET tdiff == Add32(TIMEDIFF, cp4(tz))
      ct == IF btime THEN st.birthtime ELSE st.ctime
      f1 == Put(Zeros(FileHdrSize), oFName,
                convertFilesystemNameToMacRoman(name, MaxNameLen))
      f2 == Put(f1, oCDate, Add32(ct, tdiff))
      f3 == Put(f2, oMDate, Add32(st.mtime, tdiff))
      f4 == Put(Put(f3, oCompRMethod, <<mtype>>), oCompDMethod, <<mtype>>)
      f5 == Put(f4, oDLen, cp4(unc))
  IN Put(f5, oCDLen, cp4(span))

\* a checksum taken over the whole record, checksum field included
SealWhole(h) == Put(h, oHdrCRC, cp2(updcrc(0, h)))

\* crc = updcrc(0, &fh, sizeof(fh)-2); cp2(crc, fh.hdrCRC)
SealHeader(h) == Put(h, oHdrCRC, cp2(updcrc(0, SubSeq(h, 1, FileHdrSize - 2))))

\* the fix-up landing on the endFolder record just written
PatchAtClose(startPos, fpos1) == fpos1
\* the fix-up landing at the start of the archive
PatchAtZero(startPos, fpos1) == 0

\* where the fix-up of the startFolder record seeks to
PatchOffset(startPos, fpos1) == startPos

\* a span measured to the end of the endFolder record
FolderSpanToEnd(fpos1, startPos) == fpos1 + FileHdrSize - startPos

\* the compressed total of a folder: beginning of the endFolder record minus
\* beginning of the startFolder record
FolderSpan(fpos1, startPos) == fpos1 - startPos

\* mtype == endFolder: turn fh into the startFolder record and rewrite it at
\* startPos.  Returns the machine and whether a seek or write failed.
PatchStartFolder(m, startPos, fpos1, id, flt) ==
  Only({ LET m1 == [m EXCEPT !.fh = h, !.crc = be16(Get(h, oHdrCRC, 2))]
             to == PatchOffset(startPos, fpos1)
         IN IF flt.op = 6 \/ to < 0 THEN [m |-> m1, iofail |-> TRUE]
            ELSE [m |-> safe_write([m1 EXCEPT !.pos = to], h, id, "patch",
                                   flt.op = 7, flt.k),
                  iofail |-> flt.op = 7]
         : h \in {SealHeader(Put(Put(m.fh, oCompRMethod, <<startFolder>>),
                                 oCompDMethod, <<startFolder>>))} })

\* lines 396-435 of put_folder_entry, once the sealed header h is known
FolderRewrite(m1, h, startPos, fpos1, unc, mtype, id, flt) ==
  LET m2 == [m1 EXCEPT !.fh = h, !.crc = be16(Get(h, oHdrCRC, 2))]
      fpos2 == m1.pos
      Ret0(mm) == [m |-> mm, ret |-> 0, unc |-> unc, off |-> fpos1,
                   iofail |-> TRUE, emitted |-> FALSE]
  IN IF flt.op = 3 \/ flt.op = 4 THEN Ret0(m2)
     ELSE IF flt.op = 5
       THEN Ret0(safe_write([m2 EXCEPT !.pos = fpos1], h, id, "final", TRUE, flt.k))
     ELSE
       Only({ IF p.iofail \/ flt.op = 8 THEN Ret0(p.m)
              ELSE [m |-> [p.m EXCEPT !.pos = fpos2],
                    ret |-> fpos2 - fpos1, unc |-> unc + FileHdrSize,
                    off |-> fpos1, iofail |-> FALSE, emitted |-> TRUE]
              : p \in { IF mtype = endFolder
                          THEN PatchStartFolder(
                                 safe_write([m2 EXCEPT !.pos = fpos1], h, id,
                                            "final", FALSE, 0),
                                 startPos, fpos1, id, flt)
                          ELSE [m |-> safe_write([m2 EXCEPT !.pos = fpos1], h,
                                                 id, "final", FALSE, 0),
                                iofail |-> FALSE] } })

\* put_folder_entry(name, startPos, &unc, mtype, level): stok says whether
\* stat(name) succeeds.  Returns the machine, the function result (ret), the
\* new *uncompressedLen (unc), the header's offset (off) and the failure.
put_folder_entry(m, name, st, stok, tz, btime, startPos, unc, mtype, id, flt) ==
  LET fpos1 == IF flt.op = 1 THEN -1 ELSE m.pos
      Ret0(mm, io) == [m |-> mm, ret |-> 0, unc |-> unc, off |-> fpos1,
                       iofail |-> io, emitted |-> FALSE]
  IN IF fpos1 < 0 THEN Ret0(m, TRUE)
     ELSE
     LET m1 == safe_write([m EXCEPT !.fh = Zeros(FileHdrSize)],
                          Zeros(FileHdrSize), id, "empty", flt.op = 2, flt.k)
     IN IF flt.op = 2 THEN Ret0(m1, TRUE)
        ELSE IF ~stok THEN Ret0(m1, FALSE)
        ELSE Only({ FolderRewrite(m1, h, startPos, fpos1, unc, mtype, id, flt)
                    : h \in {SealHeader(FolderFields(name, st, tz, btime, unc,
                                                     FolderSpan(fpos1, startPos),
                                                     mtype))} })

(* ------------------------------- put_file ------------------------------- *)
\* A file description f says what the filesystem holds around one name:
\*   ad       the AppleDouble container open_appledouble_file finds for the
\*            name (NoSidecar when it finds none)
\*   rsrc     st_size of name.rsrc (0: stat fails or the file is empty)
\*   nfork    st_size of name/..namedfork/rsrc
\*   nfHdr    a whole struct resHdr can be read from the named fork
\*   data     "plain" (name exists), "dotdata" (only name.data), "none"
\*   dsz      st_size of the data file
\*   info     name.info can be opened and read in full
\*   cR, cD   compressor output length minus input length, per fork
\*   long     name is so long that name + 5 characters overflows nbuf
\*   junk     st_size found in the never-written struct stat
\* put_file threads a record s through its stages; s.ret = -1 while the
\* function is still running, otherwise it is the value returned.

PfReturn(s, r, io, hdr) == [s EXCEPT !.ret = r, !.iofail = io, !.hdrfail = hdr]

\* lines 456-470: remember the position, write the empty header
pf_reserve(m, f, ord, id, flt) ==
  LET fpos1 == IF flt.op = 1 THEN -1 ELSE m.pos
      s0 == [m |-> m, ret |-> -1, fpos1 |-> fpos1, rlen |-> 0, cRLen |-> 0,
             dlen |-> 0, cDLen |-> 0, fork |-> 0, st |-> StatOf(ord, f.junk),
             iofail |-> FALSE, hdrfail |-> FALSE, skipped |-> FALSE,
             src |-> "none", uadd |-> 0, tried |-> <<>>, fed |-> <<>>,
             left |-> 0]
  IN IF fpos1 < 0 THEN PfReturn(s0, 0, TRUE, TRUE)
     ELSE
     LET m1 == safe_write([m EXCEPT !.fh = Zeros(FileHdrSize)],
                          Zeros(FileHdrSize), id, "empty", flt.op = 2, flt.k)
         s1 == [s0 EXCEPT !.m = m1]
     IN IF flt.op = 2 THEN PfReturn(s1, 0, TRUE, TRUE) ELSE s1

\* a method that is lzwComp only for output shorter than the input
MethodSmallerOnly(clen, len) == IF clen < len THEN lzwComp ELSE noComp
\* a method that is always noComp
MethodStored(clen, len) == noComp

\* the compression method recorded for a fork
MethodFor(clen, len) == IF clen = len THEN noComp ELSE lzwComp

\* the four header fields describing the resource fork
SetRsrcFields(h, rlen, cRLen, crc) ==
  Put(Put(Put(Put(h, oRLen, cp4(rlen)), oCRLen, cp4(cRLen)),
          oRsrcCRC, cp2(crc)), oCompRMethod, <<MethodFor(cRLen, rlen)>>)

\* a resolver that never takes a fork as found
NeverResolved(rlen) == FALSE

\* a resource fork was found by an earlier method: the test `rlen == 0` that
\* guards methods 2 and 3 fails
Resolved(rlen) == rlen # 0

\* Method 1 (lines 474-487): the AppleDouble sidecar
pf_method1(s, f, id, flt) ==
  IF s.ret # -1 THEN s
  ELSE
    LET rlen == get_appledouble_rsrc_size(f.ad)
        avail == Len(find_appledouble_entry(f.ad, RESOURCE_FORK_ID).entry.data)
        r == read_appledouble_rsrc_with_crc(s.m, avail, id, flt.op = 3, flt.k)
        h == SetRsrcFields(r.m.fh, rlen, r.total, r.m.crc)
    IN IF rlen = 0 THEN [s EXCEPT !.tried = Append(s.tried, 1)]
       ELSE [s EXCEPT !.m = [r.m EXCEPT !.fh = h], !.rlen = rlen,
                      !.cRLen = r.total, !.fork = s.fork + 1,
                      !.iofail = r.iofail, !.src = "appledouble",
                      !.tried = Append(s.tried, 1)]

\* a resource fork converted whenever the data fork is
ConvertAsData(unixf) == unixf
\* the convert argument of dofork for a resource fork: dofork(nbuf,0),
\* whatever unixf is (lines 497 and 516)
RsrcConvert(unixf) == FALSE

\* Method 2 (lines 489-505): name.rsrc as the raw resource fork
pf_method2(s, f, ord, unixf, id, flt) ==
  IF s.ret # -1 \/ Resolved(s.rlen) THEN s
  ELSE IF f.long THEN PfReturn(s, 0, FALSE, FALSE)
  ELSE IF f.rsrc = 0 THEN [s EXCEPT !.tried = Append(s.tried, 2)]
  ELSE
    LET r == dofork(s.m, TRUE, RsrcBytes(f.rsrc), RsrcConvert(unixf), f.cR, id,
                    "rsrc",
                    flt.op = 3, flt.k)
        h == SetRsrcFields(r.m.fh, f.rsrc, r.clen, r.m.crc)
    IN [s EXCEPT !.m = [r.m EXCEPT !.fh = h], !.rlen = f.rsrc,
                 !.cRLen = r.clen, !.fork = s.fork + 1,
                 !.st = StatOf(ord, f.rsrc),
                 !.iofail = r.iofail, !.src = "rsrcfile",
                 !.tried = Append(s.tried, 2), !.left = s.left + r.left]

\* Method 3 (lines 507-524, HAVE_NAMEDFORK builds): the named fork
pf_method3(s, f, ord, unixf, id, flt, namedfork) ==
  IF s.ret # -1 \/ Resolved(s.rlen) \/ ~namedfork THEN s
  ELSE IF f.nfork = 0 THEN [s EXCEPT !.tried = Append(s.tried, 3)]
  ELSE
    LET r == dofork(s.m, TRUE, NamedForkBytes(f.nfork), RsrcConvert(unixf), f.cR,
                    id, "rsrc",
                    flt.op = 3, flt.k)
        h == SetRsrcFields(r.m.fh, f.nfork, r.clen, r.m.crc)
    IN [s EXCEPT !.m = [r.m EXCEPT !.fh = h], !.rlen = f.nfork,
                 !.cRLen = r.clen, !.fork = s.fork + 1,
                 !.st = StatOf(ord, f.nfork),
                 !.iofail = r.iofail, !.src = "namedfork",
                 !.tried = Append(s.tried, 3), !.left = s.left + r.left]

\* lines 526-551: the data fork, and the skip when no fork was found
pf_data(s, f, ord, unixf, id, flt) ==
  IF s.ret # -1 THEN s
  ELSE IF f.data # "plain" /\ f.long THEN PfReturn(s, 0, s.iofail, FALSE)
  ELSE
    LET st == IF f.data = "none" THEN s.st ELSE StatOf(ord, f.dsz)
        s1 == [s EXCEPT !.st = st, !.dlen = st.size, !.cDLen = st.size]
        s2 == IF st.size = 0 THEN s1
              ELSE
                LET r == dofork(s.m, f.data # "none", DataBytes(f.dsz), unixf,
                                f.cD, id, "data", flt.op = 4, flt.k)
                    h == Put(Put(Put(Put(r.m.fh, oDLen, cp4(st.size)),
                                     oCDLen, cp4(r.clen)),
                                 oDataCRC, cp2(r.m.crc)),
                             oCompDMethod, <<MethodFor(r.clen, st.size)>>)
                IN [s1 EXCEPT !.m = [r.m EXCEPT !.fh = h], !.cDLen = r.clen,
                              !.fork = s.fork + 1, !.fed = r.fed,
                              !.left = s.left + r.left,
                              !.iofail = s.iofail \/ r.iofail]
    IN IF s2.fork = 0 THEN [PfReturn(s2, 0, s2.iofail, FALSE) EXCEPT !.skipped = TRUE]
       ELSE s2

\* lines 553-611: name, type, creator, flags and dates
pf_info(s, f, name, ord, opts, tz) ==
  IF s.ret # -1 THEN s
  ELSE IF f.long THEN PfReturn(s, 0, s.iofail, FALSE)
  ELSE
    LET h0 == s.m.fh
        h == IF f.info
               THEN Put(Put(Put(Put(Put(Put(h0,
                      oFName, strncpy(InfoHdr.name, 64)),
                      oFType, strncpy(InfoHdr.type, 4)),
                      oFCreator, strncpy(InfoHdr.creator, 4)),
                      oFndrFlags, strncpy(InfoHdr.flag, 2)),
                      oCDate, strncpy(InfoHdr.ctime, 4)),
                      oMDate, strncpy(InfoHdr.mtime, 4))
               ELSE
                 LET a == Put(h0, oFName,
                              convertFilesystemNameToMacRoman(name, MaxNameLen))
                     b == Put(Put(a, oFType,
                                  strncpy(IF opts.Type = <<>> THEN <<84, 69, 88, 84>>
                                          ELSE opts.Type, 4)),
                              oFCreator,
                              strncpy(IF opts.Creator = <<>> THEN <<75, 65, 72, 76>>
                                      ELSE opts.Creator, 4))
                     ad_meta == read_appledouble_metadata(f.ad)
                     c == IF ad_meta.ok
                            THEN Put(Put(Put(b, oFType, strncpy(ad_meta.meta.type, 4)),
                                         oFCreator, strncpy(ad_meta.meta.creator, 4)),
                                     oFndrFlags, strncpy(ad_meta.meta.flags, 2))
                          ELSE IF opts.namedfork /\ s.rlen # 0 /\ f.nfHdr
                            THEN Put(Put(Put(b, oFType, strncpy(ResHdr.type, 4)),
                                         oFCreator, strncpy(ResHdr.creator, 4)),
                                     oFndrFlags, strncpy(ResHdr.fdflags, 2))
                          ELSE b
                     tdiff == Add32(TIMEDIFF, cp4(tz))
                     ct == IF opts.namedfork THEN s.st.birthtime ELSE s.st.ctime
                 IN Put(Put(c, oCDate, Add32(ct, tdiff)),
                        oMDate, Add32(s.st.mtime, tdiff))
    IN [s EXCEPT !.m = [s.m EXCEPT !.fh = h]]

\* what put_file returns on success (lines 630, 644)
FileResult(fpos1, fpos2) == fpos2 - fpos1

\* a rewrite that stays at the end of the entry
RewriteAtEnd(fpos1, fpos2) == fpos2

\* where the finished file header is written: lseek(ofd, fpos1, SEEK_SET)
RewriteOffset(fpos1, fpos2) == fpos1

\* lines 630-644: rewrite the sealed header h in place
FileRewrite(s, h, id, flt) ==
  LET m1 == [s.m EXCEPT !.fh = h, !.crc = be16(Get(h, oHdrCRC, 2))]
      fpos2 == s.m.pos
  IN IF flt.op = 5 \/ flt.op = 6 THEN PfReturn([s EXCEPT !.m = m1], 0, TRUE, TRUE)
     ELSE
     LET m2 == safe_write([m1 EXCEPT !.pos = RewriteOffset(s.fpos1, fpos2)],
                          h, id, "final", flt.op = 7, flt.k)
     IN IF flt.op = 7 \/ flt.op = 8
          THEN PfReturn([s EXCEPT !.m = m2], 0, TRUE, TRUE)
          ELSE [s EXCEPT !.m = [m2 EXCEPT !.pos = fpos2],
                         !.ret = FileResult(s.fpos1, fpos2),
                         !.uadd = s.rlen + s.dlen + FileHdrSize]

\* lines 627-644: checksum the header and rewrite it in place
pf_finish(s, id, flt) ==
  IF s.ret # -1 THEN s
  ELSE Only({ FileRewrite(s, h, id, flt) : h \in {SealHeader(s.m.fh)} })

\* put_file(name, &unc, level) on file description f: the stages in program
\* order, each applied to the state the one before left
put_file(m, f, name, ord, opts, tz, id, flt) ==
  LET S1 == { pf_reserve(m, f, ord, id, flt) }
      S2 == { pf_method1(s, f, id, flt) : s \in S1 }
      S3 == { pf_method2(s, f, ord, opts.unixf, id, flt) : s \in S2 }
      S4 == { pf_method3(s, f, ord, opts.unixf, id, flt, opts.namedfork) : s \in S3 }
      S5 == { pf_data(s, f, ord, opts.unixf, id, flt) : s \in S4 }
      S6 == { pf_info(s, f, name, ord, opts, tz) : s \in S5 }
  IN Only({ pf_finish(s, id, flt) : s \in S6 })

(* ------------------------------ the state ------------------------------ *)
VARIABLES
  out,          \* the bytes of the archive file
  pos,          \* the file offset of ofd
  fh,           \* struct fileHdr fh (global)
  crc,          \* ushort crc (global)
  sh,           \* struct sitHdr sh (global)
  pc,           \* where main is: idle, reserved, loop, finalized, aborted
  argi,         \* arguments of the command line processed so far
  nargs,        \* argc - optind
  total, items, uncompressed,   \* main's running totals
  stack,        \* the directories put_folder is reading, innermost last
  opts,         \* -u, -T, -C and the build's HAVE_NAMEDFORK / HAVE_BIRTHTIME
  tz,           \* get_timezone_offset()
  nobj,         \* filesystem objects met so far (names and times go by it)
  nread,        \* directory entries readdir has returned so far
  faulty,       \* the environment of this run may fail seeks and writes
  budget,       \* failures the environment may still inject
  wlog,         \* history: every write made on ofd
  entries,      \* history: every put_file / put_folder_entry call
  ioFailed,     \* history: some seek or write on ofd failed
  hdrFailed,    \* history: a seek or write for an entry header failed
  statFailed,   \* history: stat of a directory being archived failed
  afterFail,    \* history: calls started after a header seek/write failure
  finalTried,   \* history: main reached the final archive header rewrite
  exitCode,     \* the process exit status, -1 while running
  fsName,       \* a name handed to the transcoder on its own
  macName,      \* what the transcoder stored for it, <<>> before the call
  nameTrace,    \* the passes its loop made
  adBytes,      \* a sidecar file handed to the parser on its own
  adWant,       \* the entry id asked for
  adResult,     \* what the parser returned, ret = 1 before the call
  fsTree,       \* a filesystem handed to the traversal on its own
  walkStack,    \* the put_folder calls in progress, innermost last
  walkLog,      \* history: the objects handed to put_file or entered
  walkArg,      \* the argument main's loop is at
  walkPc,       \* idle, loop or done
  article,      \* the lines handed to macbinfilt on its own
  filt,         \* the globals of macbinfilt, its output and exit status
  pairFile,     \* a file handed to put_file on its own, twice
  pairOpts,     \* the options of both calls, -u apart
  pairOrd,      \* which name and times the file has
  runOff,       \* what put_file returned without -u, NotRun before the call
  runOn         \* what put_file returned with -u

MainVars ==
  <<out, pos, fh, crc, sh, pc, argi, nargs, total, items, uncompressed,
    stack, opts, tz, nobj, nread, faulty, budget, wlog, entries,
    ioFailed, hdrFailed, statFailed, afterFail, finalTried, exitCode>>
NameVars == <<fsName, macName, nameTrace>>
\* the variables of the parts of the program looked at on their own
ParseVars == <<adBytes, adWant, adResult>>
WalkVars == <<fsTree, walkStack, walkLog, walkArg, walkPc>>
FiltVars == <<article, filt>>
PairVars == <<pairFile, pairOpts, pairOrd, runOff, runOn>>
SideVars == <<NameVars, ParseVars, WalkVars, FiltVars, PairVars>>
vars == <<MainVars, SideVars>>

M == [out |-> out, pos |-> pos, fh |-> fh, crc |-> crc, wlog |-> wlog]

Plain(dsz, cD) ==
  [ad |-> NoSidecar, rsrc |-> 0, nfork |-> 0,
   nfHdr |-> FALSE, data |-> "plain", dsz |-> dsz, info |-> FALSE,
   cR |-> 0, cD |-> cD, long |-> FALSE, junk |-> 0]

\* a file with an AppleDouble sidecar holding a resource fork and Finder info
WithSidecar ==
  [Plain(1, 0) EXCEPT !.ad = Sidecar(<<FinfoEntry(AdMeta), RsrcEntry(2, 2)>>)]
\* xbin's output: name.info, name.rsrc and name.data, and no file called name
XbinTriple ==
  [Plain(1, 1) EXCEPT !.data = "dotdata", !.rsrc = 2, !.cR = -1, !.info = TRUE]

\* a file with all three resource fork sources, each of another length
ThreeForks == [WithSidecar EXCEPT !.rsrc = 3, !.nfork = 130, !.nfHdr = TRUE]
\* name.rsrc and a named fork, no sidecar
RsrcAndNamed == [Plain(1, 0) EXCEPT !.rsrc = 3, !.nfork = 130, !.nfHdr = TRUE]
\* a named fork only
NamedOnly == [Plain(1, 0) EXCEPT !.nfork = 130, !.nfHdr = TRUE]
\* a sidecar with a Finder info entry (a colour label) and no resource entry,
\* beside a name.rsrc
SidecarNoRsrc ==
  [Plain(1, 0) EXCEPT !.ad = Sidecar(<<FinfoEntry(AdMetaLabel)>>), !.rsrc = 3,
                      !.nfork = 4]
\* the same kind of sidecar, no name.rsrc, and a short named fork
SidecarNoRsrcNamed ==
  [Plain(1, 0) EXCEPT !.ad = Sidecar(<<FinfoEntry(AdMeta)>>), !.nfork = 4]
\* a sidecar and a name.info
InfoAndSidecar == [WithSidecar EXCEPT !.info = TRUE]

\* the kinds of file met on a build with named forks (macOS)
MacDescs ==
  { ThreeForks, RsrcAndNamed, NamedOnly, SidecarNoRsrc, SidecarNoRsrcNamed,
    InfoAndSidecar, Plain(2, 0) }

\* the kinds of file the runs meet; runs in a failing environment meet fewer
FileDescs ==
  IF faulty
    THEN { Plain(2, -1), WithSidecar }
  ELSE IF opts.namedfork
    THEN MacDescs
    ELSE { Plain(2, d) : d \in {-1, 0, 1} }          \* a text file
         \cup { Plain(0, 0) }                        \* an empty file
         \cup { WithSidecar, XbinTriple }

\* the command lines and builds explored
OptionSets ==
  { [unixf |-> FALSE, Type |-> <<>>, Creator |-> <<>>, namedfork |-> FALSE],
    [unixf |-> TRUE, Type |-> <<74, 80, 69, 71>>, Creator |-> <<71, 75, 79, 78>>,
     namedfork |-> FALSE] }
\* a build with HAVE_NAMEDFORK and HAVE_BIRTHTIME
MacOptionSets ==
  { [unixf |-> FALSE, Type |-> <<>>, Creator |-> <<>>, namedfork |-> TRUE] }

\* bytes a failing write gets out before it fails (capped by the buffer)
PartialLens == {50}

\* the failures the environment may inject into one call: op numbers the
\* seeks and writes of the call in program order (see put_file and
\* put_folder_entry); 9 is the caller's lseek for startPos, 10 the stat of a
\* directory
Faults ==
  {NoFault} \cup
  (IF budget > 0 THEN [op : 1..10, k : PartialLens] ELSE {})

MainInit(b, O) ==
  /\ out = <<>> /\ pos = 0
  /\ fh = Zeros(FileHdrSize) /\ sh = Zeros(SitHdrSize) /\ crc = 0
  /\ pc = "idle"
  /\ argi = 0 /\ nargs \in 0..MaxArgs
  /\ total = 0 /\ items = 0 /\ uncompressed = 0
  /\ stack = <<>>
  /\ opts \in O
  /\ tz = 3600
  /\ nobj = 0 /\ nread = 0
  /\ faulty = (b > 0)
  /\ budget = b
  /\ wlog = <<>> /\ entries = <<>>
  /\ ioFailed = FALSE /\ hdrFailed = FALSE /\ statFailed = FALSE
  /\ afterFail = 0 /\ finalTried = FALSE /\ exitCode = -1

\* a run of the archiver: the transcoder is called from within put_file and
\* put_folder_entry only
NameIdle == fsName = <<>> /\ macName = <<>> /\ nameTrace = <<>>
ParseIdle == adBytes = <<>> /\ adWant = 0 /\ adResult = [ret |-> 1, entry |-> NoEntry]
WalkIdle ==
  /\ fsTree = <<>> /\ walkStack = <<>> /\ walkLog = <<>> /\ walkArg = 0
  /\ walkPc = "idle"
\* the globals of macbinfilt.c as main finds them, after the banner line
\* (lines 21-28, 39, 46-47); ofs 0 is stdout, ofs n the file "partn";
\* parts maps the slots that hold a FILE pointer to the file's contents
FiltStart ==
  [pc |-> "filter", pos |-> 1, cur_part |-> 0, part |-> 0, divert_part |-> 0,
   max_part |-> 0, ofs |-> 0, saveofs |-> 0, parts |-> <<>>,
   stdout |-> <<"banner">>, stderr |-> <<>>, rc |-> 0, stale |-> FALSE]
FiltIdle == article = <<>> /\ filt = [FiltStart EXCEPT !.pc = "idle"]
\* put_file has not been called
NotRun == [ret |-> -2]
PairIdle ==
  /\ pairFile = Plain(0, 0) /\ pairOrd = 0 /\ runOff = NotRun /\ runOn = NotRun
  /\ pairOpts = [unixf |-> FALSE, Type |-> <<>>, Creator |-> <<>>, namedfork |-> FALSE]
InitFor(b, O) ==
  MainInit(b, O) /\ NameIdle /\ ParseIdle /\ WalkIdle /\ FiltIdle /\ PairIdle

InitWith(b) ==
  InitFor(b, IF b > 0 THEN {CHOOSE o \in OptionSets : ~o.unixf} ELSE OptionSets)

Init == InitWith(0)
FaultInit == InitWith(MaxFaults)
MacInit == InitFor(0, MacOptionSets)

\* the machine part of the state after a call
SetMachine(m) ==
  /\ out' = m.out /\ pos' = m.pos /\ fh' = m.fh /\ crc' = m.crc
  /\ wlog' = m.wlog

\* history kept for a put_file call: the file description it worked on, the
\* resource fork strategies it consulted, the one that gave the resource
\* fork, and the data bytes it handed to the compressor
FileNote(f, r) ==
  [f |-> f, tried |-> r.tried, src |-> r.src, fed |-> r.fed, left |-> r.left]
NoFile ==
  [f |-> Plain(0, 0), tried |-> <<>>, src |-> "none", fed |-> <<>>, left |-> 0]

\* history kept for one call
Entry(id, kind, name, r, endpos, open, skipped, file) ==
  [id |-> id, kind |-> kind, name |-> name, off |-> r.off, ret |-> r.ret,
   endpos |-> endpos, arg |-> argi + 1, depth |-> Len(stack), open |-> open,
   skipped |-> skipped, file |-> file]

NoteCall(e, io, hdr, st, used) ==
  /\ entries' = Append(entries, e)
  /\ ioFailed' = (ioFailed \/ io)
  /\ hdrFailed' = (hdrFailed \/ hdr)
  /\ statFailed' = (statFailed \/ st)
  /\ afterFail' = afterFail + (IF hdrFailed THEN 1 ELSE 0)
  /\ budget' = IF used /\ budget > 0 THEN budget - 1 ELSE budget

(* ------------------------------- main ---------------------------------- *)
\* line 204: creat fails, exit(1)
CreatFails ==
  /\ UNCHANGED SideVars
  /\ pc = "idle"
  /\ pc' = "aborted" /\ exitCode' = 1
  /\ UNCHANGED <<out, pos, fh, crc, sh, argi, nargs, total, items,
                 uncompressed, stack, opts, tz, nobj, nread, faulty, budget, wlog,
                 entries, ioFailed, hdrFailed, statFailed, afterFail,
                 finalTried>>

\* lines 204-211: create the archive and write the empty archive header
Reserve ==
  /\ UNCHANGED SideVars
  /\ pc = "idle"
  /\ \E flt \in Faults :
     \E m \in {safe_write(M, sh, 0, "archive", flt.op = 2, flt.k)} :
       LET bad == flt.op = 2
       IN /\ SetMachine(m)
          /\ pc' = IF bad THEN "aborted" ELSE "reserved"
          /\ exitCode' = IF bad THEN 1 ELSE exitCode
          /\ ioFailed' = (ioFailed \/ bad)
          /\ budget' = IF bad THEN budget - 1 ELSE budget
  /\ UNCHANGED <<sh, argi, nargs, total, items, uncompressed, stack, opts, tz,
                 nobj, nread, faulty, entries, hdrFailed, statFailed, afterFail,
                 finalTried>>

\* line 217: for (i=optind; ...)
BeginLoop ==
  /\ UNCHANGED SideVars
  /\ pc = "reserved"
  /\ pc' = "loop"
  /\ UNCHANGED <<out, pos, fh, crc, sh, argi, nargs, total, items,
                 uncompressed, stack, opts, tz, nobj, nread, faulty, budget, wlog,
                 entries, ioFailed, hdrFailed, statFailed, afterFail,
                 finalTried, exitCode>>

\* totals that count every argument, archived or not
AccountEvery(n, len) ==
  /\ total' = total + n
  /\ items' = items + 1
  /\ uncompressed' = uncompressed + len
  /\ argi' = argi + 1

\* lines 219-224: what main does with put_item's result n and len
Account(n, len) ==
  /\ total' = IF n # 0 THEN total + n ELSE total
  /\ items' = IF n # 0 THEN items + 1 ELSE items
  /\ uncompressed' = IF n # 0 THEN uncompressed + len ELSE uncompressed
  /\ argi' = argi + 1

\* a file argument: put_item's else branch (lines 268-271) and main's totals
ArgFile ==
  /\ UNCHANGED SideVars
  /\ pc = "loop" /\ stack = <<>> /\ argi < nargs
  /\ \E f \in FileDescs, flt \in Faults :
     \E r \in {put_file(M, f, NameOf(nobj + 1), nobj + 1, opts, tz,
                         Len(entries) + 1, flt)} :
       LET id == Len(entries) + 1
       IN /\ SetMachine(r.m)
          /\ Account(r.ret, r.uadd)
          /\ NoteCall(Entry(id, "file", NameOf(nobj + 1),
                            [off |-> r.fpos1, ret |-> r.ret], r.m.pos, 0,
                            r.skipped, FileNote(f, r)),
                      r.iofail, r.hdrfail, FALSE, r.iofail)
  /\ nobj' = nobj + 1
  /\ UNCHANGED <<sh, pc, nargs, stack, opts, tz, nread, faulty, finalTried,
                 exitCode>>

\* a directory is entered: startPos = lseek, put_folder_entry(startFolder),
\* then put_folder opens it (lines 262-265 and 302-308)
EnterDir ==
  \E flt \in Faults :
  \E r \in {put_folder_entry(M, NameOf(nobj + 1), StatOf(nobj + 1, 0),
                               flt.op # 10, tz, opts.namedfork,
                               IF flt.op = 9 THEN -1 ELSE pos, 0, startFolder,
                               Len(entries) + 1, flt)} :
    LET id == Len(entries) + 1
        ord == nobj + 1
        startPos == IF flt.op = 9 THEN -1 ELSE pos
    IN /\ SetMachine(r.m)
       /\ stack' = Append(stack, [name |-> NameOf(ord), ord |-> ord,
                                  startPos |-> startPos, unc |-> r.unc,
                                  n |-> r.ret, openId |-> id])
       /\ NoteCall(Entry(id, "open", NameOf(ord), r, r.m.pos, id, FALSE, NoFile),
                   r.iofail \/ flt.op = 9, r.iofail \/ flt.op = 9,
                   flt.op = 10 /\ ~r.iofail,
                   r.iofail \/ flt.op \in {9, 10})

\* a directory argument (put_item, lines 260-265)
ArgDir ==
  /\ UNCHANGED SideVars
  /\ pc = "loop" /\ stack = <<>> /\ argi < nargs
  /\ EnterDir
  /\ nobj' = nobj + 1
  /\ UNCHANGED <<sh, pc, argi, nargs, total, items, uncompressed, opts, tz,
                 nread, faulty, finalTried, exitCode>>

\* the outermost directory being read
Bottom == stack[1]

(* ----------------------------- put_folder ------------------------------ *)
Top == stack[Len(stack)]

\* readdir returns ".", "..", ".DS_Store", or a name lstat fails on: continue
DirSkip ==
  /\ UNCHANGED SideVars
  /\ pc = "loop" /\ stack # <<>> /\ nread < MaxEntries
  /\ nread' = nread + 1
  /\ UNCHANGED <<out, pos, fh, crc, sh, pc, argi, nargs, total, items,
                 uncompressed, stack, opts, tz, nobj, faulty, budget, wlog,
                 entries, ioFailed, hdrFailed, statFailed, afterFail, finalTried,
                 exitCode>>

\* readdir returns a file: put_file and the two sums (lines 310-324)
DirFile ==
  /\ UNCHANGED SideVars
  /\ pc = "loop" /\ stack # <<>> /\ nread < MaxEntries
  /\ \E f \in FileDescs, flt \in Faults :
     \E r \in {put_file(M, f, NameOf(nobj + 1), nobj + 1, opts, tz,
                         Len(entries) + 1, flt)} :
       LET id == Len(entries) + 1
       IN /\ SetMachine(r.m)
          /\ stack' = [stack EXCEPT ![Len(stack)].n = @ + r.ret,
                                    ![Len(stack)].unc = @ + r.uadd]
          /\ NoteCall(Entry(id, "file", NameOf(nobj + 1),
                            [off |-> r.fpos1, ret |-> r.ret], r.m.pos, 0,
                            r.skipped, FileNote(f, r)),
                      r.iofail, r.hdrfail, FALSE, r.iofail)
  /\ nobj' = nobj + 1 /\ nread' = nread + 1
  /\ UNCHANGED <<sh, pc, argi, nargs, total, items, uncompressed, opts, tz,
                 faulty, finalTried, exitCode>>

\* readdir returns a directory (lines 301-308)
DirOpen ==
  /\ UNCHANGED SideVars
  /\ pc = "loop" /\ stack # <<>> /\ nread < MaxEntries
  /\ Len(stack) < MaxDepth
  /\ EnterDir
  /\ nobj' = nobj + 1 /\ nread' = nread + 1
  /\ UNCHANGED <<sh, pc, argi, nargs, total, items, uncompressed, opts, tz,
                 faulty, finalTried, exitCode>>

\* readdir returns NULL (or opendir failed): put_folder returns, the caller
\* writes the endFolder entry and adds up (lines 309, 324 and 266, 220-224)
DirClose ==
  /\ UNCHANGED SideVars
  /\ pc = "loop" /\ stack # <<>>
  /\ \E flt \in Faults :
     \E r \in {put_folder_entry(M, Top.name, StatOf(Top.ord, 0),
                                  flt.op # 10, tz, opts.namedfork,
                                  Top.startPos, Top.unc, endFolder,
                                  Len(entries) + 1, flt)} :
       LET id == Len(entries) + 1
           d == Top
           n == d.n + r.ret
           rest == SubSeq(stack, 1, Len(stack) - 1)
       IN /\ SetMachine(r.m)
          /\ IF rest = <<>>
               THEN /\ Account(n, r.unc)
                    /\ stack' = rest
               ELSE /\ stack' = [rest EXCEPT ![Len(rest)].n = @ + n,
                                             ![Len(rest)].unc = @ + r.unc]
                    /\ UNCHANGED <<total, items, uncompressed, argi>>
          /\ NoteCall([Entry(id, "close", d.name, r, r.m.pos, d.openId, FALSE,
                                 NoFile)
                         EXCEPT !.depth = Len(stack) - 1],
                      r.iofail, r.iofail, flt.op = 10 /\ ~r.iofail,
                      r.iofail \/ flt.op = 10)
  /\ UNCHANGED <<sh, pc, nargs, opts, tz, nobj, nread, faulty, finalTried,
                 exitCode>>

(* --------------------------- main, the end ----------------------------- *)
\* lines 226-234: the finished archive header
FinalHeader(n, len) ==
  Put(Put(Put(Put(Put(sh, 0, <<83, 73, 84, 33>>), oNumFiles, cp2(n)),
              oArcLen, cp4(len)), oSig2, <<114, 76, 97, 117>>),
      oVersion, <<1>>)

\* a loop that is left only when no entry header failed
LoopDoneUnlessFailed == stack = <<>> /\ argi = nargs /\ ~hdrFailed

\* line 217: the for loop over the arguments has run out (i == argc)
LoopDone == stack = <<>> /\ argi = nargs

\* lines 226-243: rewrite the archive header at offset 0 and close
Finalize ==
  /\ UNCHANGED SideVars
  /\ pc = "loop" /\ LoopDone
  /\ \E flt \in Faults :
     \E h \in {FinalHeader(items, total + SitHdrSize)} :
     \E m \in {safe_write([M EXCEPT !.pos = IF flt.op = 1 THEN pos ELSE 0],
                          h, 0, "archive", flt.op = 2, flt.k)} :
       LET seekbad == flt.op = 1
           bad == flt.op = 2
       IN /\ SetMachine(m)
          /\ sh' = h
          /\ pc' = IF bad THEN "aborted" ELSE "finalized"
          /\ exitCode' = IF bad THEN 1 ELSE 0
          /\ ioFailed' = (ioFailed \/ bad \/ seekbad)
          /\ budget' = IF bad \/ seekbad THEN budget - 1 ELSE budget
  /\ total' = total + SitHdrSize
  /\ uncompressed' = uncompressed + SitHdrSize
  /\ finalTried' = TRUE
  /\ UNCHANGED <<argi, nargs, items, stack, opts, tz, nobj, nread, faulty,
                 entries, hdrFailed, statFailed, afterFail>>

Next ==
  \/ CreatFails
  \/ Reserve
  \/ BeginLoop
  \/ ArgFile
  \/ ArgDir
  \/ DirSkip
  \/ DirFile
  \/ DirOpen
  \/ DirClose
  \/ Finalize

MacSpec == MacInit /\ [][Next]_vars
Spec == Init /\ [][Next]_vars
FaultSpec == FaultInit /\ [][Next]_vars
\* the runs on at most one argument, with the scheduling of a sequential
\* program: a step that can be taken is taken
FairFaultInit == FaultInit /\ nargs <= 1
FairFaultSpec == FairFaultInit /\ [][Next]_vars /\ WF_vars(Next)


(* ------------------------ the transcoder on its own --------------------- *)
\* bytes names are made of: a, colon, slash, and the UTF-8 bytes of e-acute
\* (C3 A9), of A-diaeresis (C3 84) and of the dagger (E2 80 A0)
NameAlphabet == {97, 58, 47, 195, 169, 132, 226, 128, 160}
RECURSIVE NamesOfLen(_)
NamesOfLen(n) ==
  IF n = 0 THEN { <<>> }
  ELSE { Append(s, b) : s \in NamesOfLen(n - 1), b \in NameAlphabet }
\* n bytes repeating pat
Fill(pat, n) == [i \in 1..n |-> pat[((i - 1) % Len(pat)) + 1]]
\* names around the 63-byte capacity of the name field
LongNames ==
  { Fill(pat, n) : pat \in { <<97>>, <<97, 98, 47>>, <<97, 58>>,
                             <<97, 195, 169>>, <<226, 128, 160>>,
                             <<195, 169>>, <<97, 226, 128, 160>> },
                   n \in 61..66 }
NameInputs == UNION { NamesOfLen(n) : n \in 0..MaxTyped } \cup LongNames

NameInit ==
  /\ MainInit(0, {CHOOSE o \in OptionSets : ~o.unixf}) /\ nargs = 0
  /\ fsName \in NameInputs /\ macName = <<>> /\ nameTrace = <<>>
  /\ ParseIdle /\ WalkIdle /\ FiltIdle /\ PairIdle

\* convertFilesystemNameToMacRoman(fsName, macName, 63)
Transcode ==
  /\ macName = <<>>
  /\ macName' = convertFilesystemNameToMacRoman(fsName, MaxNameLen)
  /\ nameTrace' = ConvLoop(fsName, 1, NameRoom(Len(fsName), MaxNameLen),
                          <<>>).trace
  /\ UNCHANGED <<MainVars, fsName, ParseVars, WalkVars, FiltVars, PairVars>>

NameNext == Transcode
NameSpec == NameInit /\ [][NameNext]_vars

(* ---------------------- the sidecar parser on its own ------------------- *)
\* the ids descriptors carry: resource fork, Finder info, real name, and an
\* id with its top bit set
TableIds == {2, 9, 3, -2147483646}
RECURSIVE TablesOfLen(_)
TablesOfLen(n) ==
  IF n = 0 THEN { <<>> }
  ELSE { Append(s, id) : s \in TablesOfLen(n - 1), id \in TableIds }
\* descriptor k of a table: its id, and an offset and a size that tell the
\* descriptors apart
Descriptor(id, k) == cp4(id) \o cp4(100 + k) \o cp4(10 + k)
RECURSIVE Descriptors(_, _)
Descriptors(ids, k) ==
  IF k > Len(ids) THEN <<>>
  ELSE Descriptor(ids[k], k) \o Descriptors(ids, k + 1)
\* a file: magic, version, 16 filler bytes, the declared count, the
\* descriptors, four bytes of entry data
AdFile(magic, declared, ids) ==
  cp4(magic) \o cp4(131072) \o Zeros(16) \o cp2(declared)
    \o Descriptors(ids, 1) \o <<1, 2, 3, 4>>
\* whole files, with the count the table has, one less and one more, and
\* with another magic number
WholeFiles ==
  { AdFile(magic, declared, ids) :
      magic \in {AS_MAGIC_AD, 333312},
      declared \in 0..(MaxTable + 1),
      ids \in UNION { TablesOfLen(n) : n \in 0..MaxTable } }
\* the same files cut short: in the preamble, at its end, inside a
\* descriptor and between descriptors
ParseInputs ==
  { SubSeq(f, 1, Min(c, Len(f))) : f \in WholeFiles,
                                   c \in {0, 25, 26, 32, 38, 49, 50, 100} }

ParseInit ==
  /\ MainInit(0, {CHOOSE o \in OptionSets : ~o.unixf}) /\ nargs = 0
  /\ NameIdle /\ WalkIdle /\ FiltIdle /\ PairIdle
  /\ adBytes \in ParseInputs /\ adWant \in {RESOURCE_FORK_ID, FINDER_INFO_ID}
  /\ adResult = [ret |-> 1, entry |-> NoEntry]

\* find_appledouble_entry(fd, adWant, &entry)
Parse ==
  /\ adResult.ret = 1
  /\ adResult' = FindEntry(adBytes, adWant)
  /\ UNCHANGED <<MainVars, NameVars, adBytes, adWant, WalkVars, FiltVars, PairVars>>

ParseNext == Parse
ParseSpec == ParseInit /\ [][ParseNext]_vars

(* ------------------- the traversal of put_item / put_folder ------------- *)
\* The walk over the directory tree on its own, on explicit filesystems: what
\* is recursed into, in which order, and at which depth.  The archive writes
\* of the calls are left to the actions above.

\* what lstat says of an object.  "locked" is a directory opendir fails on,
\* "gone" a name lstat fails on, "link" a symbolic link to the directory
\* target; parent 0 is an object named on the command line.
FsKinds == {"dir", "locked", "file", "gone", "link"}
FsNode(kind, parent, target) == [kind |-> kind, parent |-> parent, target |-> target]

\* the objects that may be added as number n to the objects t
FsNodeOptions(t, n) ==
  { FsNode(k, p, 0) : k \in FsKinds \ {"link"},
                      p \in {0} \cup { d \in DOMAIN t : t[d].kind = "dir" } }
  \cup { FsNode("link", p, d) : p \in {0} \cup { d \in DOMAIN t : t[d].kind = "dir" },
                                d \in (1..MaxNodes) \ {n} }

RECURSIVE FsTreesUpTo(_)
FsTreesUpTo(n) ==
  IF n = 0 THEN {<<>>}
  ELSE UNION { { Append(t, o) : o \in FsNodeOptions(t, n) } : t \in FsTreesUpTo(n - 1) }

\* finite directory trees of MaxNodes objects; every link points at a directory
FsTrees ==
  { t \in FsTreesUpTo(MaxNodes) :
      \A n \in DOMAIN t : t[n].kind = "link" => t[t[n].target].kind = "dir" }

\* S_ISDIR on the result of stat, which follows a link to what it points at
IsDirFollow(t, n) ==
  \/ t[n].kind \in {"dir", "locked"}
  \/ t[n].kind = "link" /\ t[t[n].target].kind \in {"dir", "locked"}
\* lstat(name, &st) == 0 && S_ISDIR(st.st_mode): the object itself
IsDir(t, n) == t[n].kind \in {"dir", "locked"}

\* the directory opendir(path) opens: the path is resolved, links followed
Opened(t, n) == IF t[n].kind = "link" THEN t[n].target ELSE n

\* the objects of set S in the order readdir returns them
RECURSIVE InOrder(_)
InOrder(S) ==
  IF S = {} THEN <<>>
  ELSE LET n == CHOOSE x \in S : \A y \in S : x <= y
       IN <<n>> \o InOrder(S \ {n})

\* what readdir returns for directory d: "." (-1), ".." (-2), then its
\* entries; nothing when opendir fails
Listing(t, d) ==
  IF t[d].kind = "locked" THEN <<>>
  ELSE <<-1, -2>> \o InOrder({ n \in DOMAIN t : t[n].parent = d })
\* the command line
Arguments(t) == InOrder({ n \in DOMAIN t : t[n].parent = 0 })

\* PATH_MAX, counted in path components: longer than any path of the tree
MaxPath == MaxNodes + 2

Frame(d, level) == [dir |-> d, next |-> 1, level |-> level]
Visit(n, as, depth) == [node |-> n, as |-> as, depth |-> depth]

WalkInit ==
  /\ MainInit(0, {CHOOSE o \in OptionSets : ~o.unixf}) /\ nargs = 0
  /\ NameIdle /\ ParseIdle /\ FiltIdle /\ PairIdle
  /\ fsTree \in FsTrees
  /\ walkStack = <<>> /\ walkLog = <<>> /\ walkArg = 1 /\ walkPc = "loop"

\* main's loop calls put_item(argv[i]) (lines 217-219, 255-271): a directory
\* gets its startFolder entry and put_folder(name, 1), anything else put_file
WalkItem ==
  /\ walkPc = "loop" /\ walkStack = <<>>
  /\ walkArg <= Len(Arguments(fsTree))
  /\ LET n == Arguments(fsTree)[walkArg]
     IN IF IsDir(fsTree, n)
        THEN /\ walkLog' = Append(walkLog, Visit(n, "folder", 0))
             /\ walkStack' = <<Frame(Opened(fsTree, n), 1)>>
             /\ walkArg' = walkArg
        ELSE /\ walkLog' = Append(walkLog, Visit(n, "file", 0))
             /\ walkArg' = walkArg + 1
             /\ UNCHANGED walkStack
  /\ UNCHANGED <<MainVars, NameVars, ParseVars, FiltVars, PairVars, fsTree, walkPc>>

\* one pass of put_folder's while loop (lines 284-324) on the next name
\* readdir returns
WalkEntry ==
  /\ walkPc = "loop" /\ walkStack # <<>>
  /\ LET k == Len(walkStack)
         f == walkStack[k]
         l == Listing(fsTree, f.dir)
         read == [walkStack EXCEPT ![k].next = f.next + 1]
     IN /\ f.next <= Len(l)
        /\ LET e == l[f.next]
           IN IF e < 0 \/ k + 1 > MaxPath \/ fsTree[e].kind = "gone"
              THEN \* ".", "..", path too long, lstat fails: continue
                   /\ walkStack' = read
                   /\ UNCHANGED walkLog
              ELSE IF IsDir(fsTree, e)
              THEN /\ walkLog' = Append(walkLog, Visit(e, "folder", k))
                   /\ walkStack' = Append(read, Frame(Opened(fsTree, e), f.level + 1))
              ELSE /\ walkLog' = Append(walkLog, Visit(e, "file", k))
                   /\ walkStack' = read
  /\ UNCHANGED <<MainVars, NameVars, ParseVars, FiltVars, PairVars, fsTree, walkPc, walkArg>>

\* readdir returns NULL (or opendir failed): put_folder returns, the caller
\* writes the endFolder entry (lines 266, 310, 281-283, 326-327)
WalkReturn ==
  /\ walkPc = "loop" /\ walkStack # <<>>
  /\ LET k == Len(walkStack)
         f == walkStack[k]
     IN /\ f.next > Len(Listing(fsTree, f.dir))
        /\ walkStack' = SubSeq(walkStack, 1, k - 1)
        /\ walkArg' = IF k = 1 THEN walkArg + 1 ELSE walkArg
  /\ UNCHANGED <<MainVars, NameVars, ParseVars, FiltVars, PairVars, fsTree, walkPc, walkLog>>

\* main's loop is over (line 217)
WalkDone ==
  /\ walkPc = "loop" /\ walkStack = <<>>
  /\ walkArg > Len(Arguments(fsTree))
  /\ walkPc' = "done"
  /\ UNCHANGED <<MainVars, NameVars, ParseVars, FiltVars, PairVars, fsTree, walkStack, walkLog, walkArg>>

WalkNext == WalkItem \/ WalkEntry \/ WalkReturn \/ WalkDone
WalkSpec == WalkInit /\ [][WalkNext]_vars
\* the program is sequential: a step that can be taken is taken
FairWalkSpec == WalkSpec /\ WF_vars(WalkNext)

(* ------------------------------ macbinfilt ------------------------------ *)
\* The filter on its own.  A line of the input is taken for what filter and
\* checkparts make of it: a line with a character outside bmap in which
\* sscanf finds "part n of m" (header), a line of valid characters longer
\* than 60 (body, which is copied), or any other line (junk, which is
\* dropped).  fopen of a part file is taken to succeed.
HeaderLine(n, m) == [kind |-> "header", part |-> n, of |-> m]
BodyLine(n, k, j) == [kind |-> "body", part |-> n, seq |-> k, ln |-> j]
JunkLine == [kind |-> "junk"]

\* the sequences of part numbers 1..m of length len
RECURSIVE Announcements(_, _)
Announcements(m, len) ==
  IF len = 0 THEN {<<>>}
  ELSE { Append(s, n) : s \in Announcements(m, len - 1), n \in 1..m }

\* an article in which the parts hs arrive in this order, each announced by
\* its header and followed by two body lines
RECURSIVE ArticleOf(_, _, _)
ArticleOf(hs, m, k) ==
  IF k > Len(hs) THEN <<>>
  ELSE <<HeaderLine(hs[k], m), BodyLine(hs[k], k, 1), BodyLine(hs[k], k, 2)>>
         \o ArticleOf(hs, m, k + 1)

\* the articles of m parts with up to MaxParts announcements
ArticlesOf(m) ==
  { <<JunkLine>> \o ArticleOf(hs, m, 1) :
      hs \in UNION { Announcements(m, len) : len \in 0..MaxParts } }
Articles == UNION { ArticlesOf(m) : m \in 1..MaxParts }

\* fputs / putc on ofs
PutLines(f, lines) ==
  IF f.ofs = 0 THEN [f EXCEPT !.stdout = f.stdout \o lines]
  ELSE [f EXCEPT !.parts[f.ofs].data = f.parts[f.ofs].data \o lines]

\* putpart(n), lines 158-169: copy the part file to ofs, close and unlink it;
\* parts[n] keeps the pointer.  Reading a closed FILE is marked stale.
putpart(f, n) ==
  Only({ [PutLines(g, g.parts[n].data)
            EXCEPT !.parts[n].closed = TRUE,
                   !.stale = g.stale \/ g.parts[n].closed]
         : g \in {f} })

\* end_oseq, lines 153-156
end_oseq(f) == [f EXCEPT !.divert_part = 0, !.ofs = f.saveofs]

\* the test of dopart, line 123, and one that takes any later part as next
AnyLater(part, cur_part) == part > cur_part
InSequence(part, cur_part) == part = cur_part + 1

\* oseq, lines 132-152: the for loop from i, then the diversion
RECURSIVE oseqLoop(_, _)
oseqLoop(f, i) ==
  IF i >= f.part THEN f
  ELSE IF i \in DOMAIN f.parts
  THEN oseqLoop([putpart(f, i) EXCEPT !.cur_part = i], i + 1)
  ELSE [f EXCEPT !.divert_part = f.part, !.saveofs = f.ofs, !.ofs = f.part,
                 !.parts = (f.part :> [data |-> <<>>, closed |-> FALSE]) @@ f.parts]
oseq(f) == oseqLoop(f, f.cur_part + 1)

\* dopart after its first test, lines 123-128
doSequence(f) ==
  IF InSequence(f.part, f.cur_part) THEN [f EXCEPT !.cur_part = f.part]
  ELSE IF f.part > f.cur_part THEN oseq(f)
  ELSE [f EXCEPT !.stderr = Append(f.stderr, [msg |-> "unexpected", part |-> f.part])]

\* dopart, lines 117-129
dopart(f) ==
  IF f.divert_part # 0
  THEN IF f.part = f.divert_part THEN f ELSE doSequence(end_oseq(f))
  ELSE doSequence(f)

\* one pass of filter's loop on a line, lines 83-91 and checkparts 108-113
filterLine(f, line) ==
  CASE line.kind = "header" ->
         dopart([f EXCEPT !.part = line.part, !.max_part = line.of])
    [] line.kind = "body" -> PutLines(f, <<line>>)
    [] OTHER -> f

\* main's loop over the remaining parts, lines 58-64
RECURSIVE remaining(_, _)
remaining(f, i) ==
  IF i > f.max_part THEN f
  ELSE IF i \in DOMAIN f.parts THEN remaining(putpart(f, i), i + 1)
  ELSE remaining([f EXCEPT !.stderr = Append(f.stderr, [msg |-> "missing", part |-> i]),
                           !.rc = -1], i + 1)

FiltInit ==
  /\ MainInit(0, {CHOOSE o \in OptionSets : ~o.unixf}) /\ nargs = 0
  /\ NameIdle /\ ParseIdle /\ WalkIdle /\ PairIdle
  /\ article \in Articles
  /\ filt = FiltStart

\* fgets returns a line (lines 83-91)
FilterLine ==
  /\ filt.pc = "filter" /\ filt.pos <= Len(article)
  /\ \E g \in {filterLine(filt, article[filt.pos])} :
       filt' = [g EXCEPT !.pos = filt.pos + 1]
  /\ UNCHANGED <<MainVars, NameVars, ParseVars, WalkVars, PairVars, article>>

\* fgets returns NULL: a diversion in progress is ended (lines 92-93)
FilterEnd ==
  /\ filt.pc = "filter" /\ filt.pos > Len(article)
  /\ \E g \in {IF filt.divert_part # 0 THEN end_oseq(filt) ELSE filt} :
       filt' = [g EXCEPT !.pc = "rest"]
  /\ UNCHANGED <<MainVars, NameVars, ParseVars, WalkVars, PairVars, article>>

\* main adds the remaining parts and exits (lines 57-65)
AddRemaining ==
  /\ filt.pc = "rest"
  /\ \E g \in {remaining(filt, filt.cur_part + 1)} :
       filt' = [g EXCEPT !.pc = "exit"]
  /\ UNCHANGED <<MainVars, NameVars, ParseVars, WalkVars, PairVars, article>>

FiltNext == FilterLine \/ FilterEnd \/ AddRemaining
FiltSpec == FiltInit /\ [][FiltNext]_vars

(* ------------------ put_file with and without -u ------------------------ *)
\* put_file on its own, called on the same file once with unixf off and once
\* with unixf on.  The two calls start from the same archive; the global crc
\* they find is what the entry before left, which need not be the same.

\* a sidecar whose resource descriptor reports more bytes than the file holds
ShortSidecar == [Plain(1, 0) EXCEPT !.ad = Sidecar(<<FinfoEntry(AdMeta), RsrcEntry(3, 2)>>)]
\* a sidecar whose resource descriptor points past the end of the file
EmptySidecar == [Plain(1, 0) EXCEPT !.ad = Sidecar(<<RsrcEntry(2, 0)>>)]

\* the files put to both calls: every kind of file of the runs above and the
\* two sidecars, each with no data, a line of text, and two lines
PairFiles ==
  { [g EXCEPT !.dsz = d] :
      g \in MacDescs \cup {WithSidecar, XbinTriple, ShortSidecar, EmptySidecar},
      d \in {0, 2, 4} }

\* the build and command line of both calls, -u apart
PairOptions ==
  { [unixf |-> FALSE, Type |-> <<>>, Creator |-> <<>>, namedfork |-> n] :
      n \in BOOLEAN }

\* ofd after main wrote the empty archive header, and a global crc
StartMachine(c) ==
  [out |-> Zeros(SitHdrSize), pos |-> SitHdrSize, fh |-> Zeros(FileHdrSize),
   crc |-> c, wlog |-> <<>>]

PairInit ==
  /\ MainInit(0, {CHOOSE o \in OptionSets : ~o.unixf}) /\ nargs = 0
  /\ NameIdle /\ ParseIdle /\ WalkIdle /\ FiltIdle
  /\ pairFile \in PairFiles /\ pairOpts \in PairOptions /\ pairOrd \in 1..2
  /\ runOff = NotRun /\ runOn = NotRun

\* sit name: put_file with unixf == 0
PutOff ==
  /\ runOff = NotRun
  /\ runOff' = put_file(StartMachine(0), pairFile, NameOf(pairOrd), pairOrd,
                        pairOpts, 0, 1, NoFault)
  /\ UNCHANGED <<MainVars, NameVars, ParseVars, WalkVars, FiltVars,
                 pairFile, pairOpts, pairOrd, runOn>>

\* sit -u name: put_file with unixf == 1
PutOn ==
  /\ runOn = NotRun
  /\ runOn' = put_file(StartMachine(4660), pairFile, NameOf(pairOrd), pairOrd,
                       [pairOpts EXCEPT !.unixf = TRUE], 0, 1, NoFault)
  /\ UNCHANGED <<MainVars, NameVars, ParseVars, WalkVars, FiltVars,
                 pairFile, pairOpts, pairOrd, runOff>>

PairNext == PutOff \/ PutOn
PairSpec == PairInit /\ [][PairNext]_vars
(* ------------------------------ properties ------------------------------ *)
\* n bytes of the archive at byte o of the record that starts at offset off
Field(off, o, n) == SubSeq(out, off + o + 1, off + o + n)

\* the calls that returned a length: their header is in the archive
Emitted == { i \in DOMAIN entries : entries[i].ret > 0 }
EmittedOf(kind) == { i \in Emitted : entries[i].kind = kind }

\* no seek, write or stat has failed so far
Clean == ~ioFailed /\ ~statFailed

\* the run went through with no failed seek, write or stat
Completed == pc = "finalized" /\ ~ioFailed /\ ~statFailed

\* C1: in the archive a completed run leaves, every emitted entry header
\* (file, folder open, folder close) carries in its last two bytes, big-endian,
\* the checksum of its first 110 bytes taken from state 0, so no field was
\* changed after the checksum was stored.
C1_HeaderChecksums ==
  Completed =>
    \A i \in Emitted :
      updcrc(0, Field(entries[i].off, 0, FileHdrSize - 2))
        = be16(Field(entries[i].off, oHdrCRC, 2))

\* a finished archive holding a file entry and a closed folder, all with a
\* checksum that is not the checksum of an empty record
C1_Witness ==
  /\ Completed
  /\ EmittedOf("file") # {} /\ EmittedOf("open") # {} /\ EmittedOf("close") # {}
  /\ \A i \in Emitted : be16(Field(entries[i].off, oHdrCRC, 2)) # 0

\* the fields of an emitted record, as numbers
DLenAt(off) == be32(Field(off, oDLen, 4))
CDLenAt(off) == be32(Field(off, oCDLen, 4))
RLenAt(off) == be32(Field(off, oRLen, 4))

\* the closes that were emitted, and the open each one matches
Closed == EmittedOf("close")
OpenOf(i) == entries[entries[i].open]

\* the uncompressed total of the calls lo..hi: 112 for each emitted header,
\* and both fork lengths of each emitted file entry
RECURSIVE Unc(_, _)
Unc(lo, hi) ==
  IF lo > hi THEN 0
  ELSE LET e == entries[hi]
           own == IF e.ret = 0 THEN 0
                  ELSE IF e.kind = "file"
                    THEN FileHdrSize + RLenAt(e.off) + DLenAt(e.off)
                  ELSE FileHdrSize
       IN own + Unc(lo, hi - 1)

WritesAt(off) == { j \in DOMAIN wlog : wlog[j].off = off }

\* C3: once a folder-close entry is emitted, the matching folder-open record
\* has been rewritten in place at its own start offset, and it is byte for
\* byte the close record except for the two method codes (32 where the close
\* has 33) and the checksum: name, dates, dLen and cDLen are the close's.
C3_OpenMirrorsClose ==
  Clean =>
    \A i \in Closed :
      LET c == entries[i]
          o == OpenOf(i)
      IN /\ \E j \in WritesAt(o.off) :
              wlog[j].id = c.id /\ wlog[j].tag = "patch"
              /\ wlog[j].n = FileHdrSize /\ wlog[j].ok
         /\ Field(o.off, oFName, FileHdrSize - 4)
              = Field(c.off, oFName, FileHdrSize - 4)
         /\ Field(o.off, 0, 2) = <<startFolder, startFolder>>
         /\ Field(c.off, 0, 2) = <<endFolder, endFolder>>

\* a closed folder with something in it: the lengths patched into the open
\* record are not the ones it was first written with
C3_Witness ==
  /\ Clean
  /\ \E i \in Closed :
       /\ entries[i].off - OpenOf(i).off > FileHdrSize
       /\ DLenAt(OpenOf(i).off) > FileHdrSize
       /\ Field(OpenOf(i).off, oFName, 1) # <<0>>

\* the arguments of which at least one entry header was emitted
Archived == { entries[i].arg : i \in Emitted }

\* C4: after a completed run the archive header's numFiles is the number of
\* top-level arguments archived: an argument counts once however many entry
\* headers it emitted, and a file argument skipped for having no content
\* does not count.
C4_NumFiles ==
  Completed => be16(SubSeq(out, oNumFiles + 1, oNumFiles + 2)) = Cardinality(Archived)

\* two arguments: a folder that emitted three headers or more, and a file
\* that was skipped
C4_Witness ==
  /\ Completed /\ nargs = 2
  /\ be16(SubSeq(out, oNumFiles + 1, oNumFiles + 2)) = 1
  /\ \E a \in 1..2 :
       Cardinality({ i \in Emitted : entries[i].arg = a }) >= 3
  /\ \E i \in DOMAIN entries : entries[i].skipped /\ entries[i].depth = 0

\* C5: after a completed run the archive header's arcLen is the byte length
\* of the output file, whatever mix of archived and skipped items there was.
C5_ArcLen ==
  Completed => be32(SubSeq(out, oArcLen + 1, oArcLen + 4)) = Len(out)

\* C6: a file with no resource fork and an empty data fork leaves nothing in
\* the archive: the call wrote no byte, and the output position after it is
\* the position before it, so the next header starts where this one would
\* have.
C6_SkipLeavesNothing ==
  \A i \in DOMAIN entries :
    entries[i].skipped =>
      /\ entries[i].endpos = entries[i].off
      /\ \A j \in DOMAIN wlog : wlog[j].id # entries[i].id

\* the header writes of call i that landed at offset off
OwnWrites(i, off, tag) ==
  { j \in WritesAt(off) : wlog[j].id = entries[i].id /\ wlog[j].tag = tag
                          /\ wlog[j].n = FileHdrSize }

\* C7 (as the code has it): every emitted file entry and folder-close header
\* is written exactly twice, empty and then finished, at the same offset; a
\* folder-open header is written twice by its own call and a third time, at
\* the same offset, by the call that emits the matching close.
C7_HeaderWrites ==
  Clean =>
    \A i \in Emitted :
      LET e == entries[i]
          fixups == { k \in Closed : entries[k].open = i /\ e.kind = "open" }
      IN /\ Cardinality(OwnWrites(i, e.off, "empty")) = 1
         /\ Cardinality(OwnWrites(i, e.off, "final")) = 1
         /\ \A j \in OwnWrites(i, e.off, "empty"), k \in OwnWrites(i, e.off, "final") :
              j < k
         /\ Cardinality(WritesAt(e.off)) = 2 + Cardinality(fixups)
         /\ Cardinality(fixups) <= 1
         /\ \A k \in fixups : OwnWrites(k, e.off, "patch") # {}

\* a finished archive with a file entry, and a folder whose open header has
\* been written three times
C7_Witness ==
  /\ Completed
  /\ EmittedOf("file") # {} /\ Closed # {}
  /\ \E i \in EmittedOf("open") : Cardinality(WritesAt(entries[i].off)) = 3

\* C7 as stated: every emitted entry header is written exactly twice, and
\* both writes go to the same offset.
C7_Original ==
  Clean =>
    \A i \in Emitted :
      /\ Cardinality(WritesAt(entries[i].off)) = 2
      /\ Cardinality({ j \in DOMAIN wlog :
                         wlog[j].id = entries[i].id
                         /\ wlog[j].tag \in {"empty", "final", "patch"} }) = 2
      /\ \A j \in DOMAIN wlog :
           wlog[j].id = entries[i].id /\ wlog[j].tag \in {"empty", "final"}
             => wlog[j].off = entries[i].off

\* C8: when a seek or a write of an entry header fails, the run is over: no
\* further item is started and the run does not end as a success.
C8_HeaderFailureIsFatal ==
  hdrFailed => /\ afterFail = 0
               /\ ~(pc = "finalized" /\ exitCode = 0)

\* the order in which main goes through its states
PcOrder ==
  pc' # pc => <<pc, pc'>> \in { <<"idle", "reserved">>, <<"idle", "aborted">>,
                                <<"reserved", "loop">>, <<"loop", "finalized">>,
                                <<"loop", "aborted">> }

C10_ArchiveHeaderUntouched ==
  /\ pc \in {"reserved", "loop"} => SubSeq(out, 1, SitHdrSize) = Zeros(SitHdrSize)
  /\ \A j \in DOMAIN wlog : wlog[j].id # 0 => wlog[j].off >= SitHdrSize

\* in the loop, after a file header and a folder's open header were patched
\* in place
C10_Witness ==
  /\ pc = "loop" /\ Len(out) > SitHdrSize
  /\ \E j \in DOMAIN wlog : wlog[j].tag = "patch" /\ wlog[j].ok
  /\ \E i \in EmittedOf("file") : TRUE
  /\ SubSeq(out, 1, SitHdrSize) = Zeros(SitHdrSize)

(* ------------------- resource fork resolution, metadata ------------------ *)
\* the put_file calls made so far, skipped and failed ones included
FileCalls == { i \in DOMAIN entries : entries[i].kind = "file" }
\* the writes of resource fork bytes a call made
RsrcWrites(i) ==
  { j \in DOMAIN wlog : wlog[j].id = entries[i].id /\ wlog[j].tag = "rsrc" }
\* strategy k was consulted by a call
Consulted(i, k) ==
  \E j \in DOMAIN entries[i].file.tried : entries[i].file.tried[j] = k
\* what the resource fork source a call settled on holds
SourceLen(n) ==
  CASE n.src = "appledouble" ->
         Len(find_appledouble_entry(n.f.ad, RESOURCE_FORK_ID).entry.data)
    [] n.src = "rsrcfile" -> n.f.rsrc + n.f.cR
    [] n.src = "namedfork" -> n.f.nfork + n.f.cR
    [] OTHER -> 0
CRLenAt(off) == be32(Field(off, oCRLen, 4))

\* C11: every put_file call consults the resource fork strategies in the
\* order 1 (AppleDouble sidecar), 2 (name.rsrc), 3 (named fork); when the
\* sidecar gives a nonzero length strategies 2 and 3 are not consulted, when
\* name.rsrc gives a nonzero length strategy 3 is not consulted, and the
\* resource fork bytes written for the entry come from one strategy only,
\* the last one consulted.
C11_StrategyOrder ==
  \A i \in FileCalls :
    LET n == entries[i].file
    IN /\ \E k \in 0..3 : n.tried = SubSeq(<<1, 2, 3>>, 1, k)
       /\ get_appledouble_rsrc_size(n.f.ad) # 0 => n.tried = <<1>>
       /\ Consulted(i, 2) /\ n.f.rsrc # 0 => ~Consulted(i, 3)
       /\ Cardinality(RsrcWrites(i)) <= 1
       /\ \A j \in RsrcWrites(i) :
            /\ wlog[j].n = SourceLen(n)
            /\ n.src = <<"appledouble", "rsrcfile", "namedfork">>[n.tried[Len(n.tried)]]
       /\ entries[i].ret > 0 /\ Clean => CRLenAt(entries[i].off) = SourceLen(n)

\* a run that archived a file with all three sources from its sidecar alone,
\* and another file from its named fork after the first two gave nothing
C11_Witness ==
  /\ \E i \in FileCalls :
       /\ entries[i].ret > 0 /\ entries[i].file.tried = <<1>>
       /\ entries[i].file.f.rsrc # 0 /\ entries[i].file.f.nfork # 0
       /\ RsrcWrites(i) # {}
  /\ \E i \in FileCalls :
       /\ entries[i].ret > 0 /\ entries[i].file.tried = <<1, 2, 3>>
       /\ entries[i].file.src = "namedfork" /\ RsrcWrites(i) # {}

\* the sidecar of a call's file is a valid container without a resource entry
NoRsrcEntry(i) ==
  LET ad == entries[i].file.f.ad
  IN /\ ad.found /\ ad.magic = AS_MAGIC_AD
     /\ \A k \in DOMAIN ad.table : ad.table[k].id # RESOURCE_FORK_ID

\* C12: when the sidecar of a file has the AppleDouble magic number and no
\* descriptor with id 2, strategy 1 reports length 0 and writes nothing, the
\* call goes on to strategy 2 and, when name.rsrc gives nothing either, to
\* strategy 3 (on a build with named forks); the resource fork of the entry
\* never comes from the sidecar.
C12_NoResourceEntry ==
  \A i \in FileCalls :
    NoRsrcEntry(i) =>
      LET n == entries[i].file
      IN /\ get_appledouble_rsrc_size(n.f.ad) = 0
         /\ Len(n.tried) >= 2 /\ n.tried[1] = 1 /\ n.tried[2] = 2
         /\ n.f.rsrc = 0 /\ opts.namedfork => n.tried = <<1, 2, 3>>
         /\ n.src # "appledouble"
         /\ \A j \in RsrcWrites(i) : n.src \in {"rsrcfile", "namedfork"}
         /\ n.src = "none" => RsrcWrites(i) = {}

\* two such files were archived, one with the resource fork of its name.rsrc
\* and one with the resource fork of its named fork
C12_Witness ==
  /\ \E i \in FileCalls :
       NoRsrcEntry(i) /\ entries[i].ret > 0 /\ entries[i].file.src = "rsrcfile"
  /\ \E i \in FileCalls :
       NoRsrcEntry(i) /\ entries[i].ret > 0 /\ entries[i].file.src = "namedfork"

\* the type, creator and flags a header at off carries
TypeAt(off) == Field(off, oFType, 4)
CreatorAt(off) == Field(off, oFCreator, 4)
FlagsAt(off) == Field(off, oFndrFlags, 2)
\* the defaults: the -T and -C arguments, else "TEXT" and "KAHL"
DefaultType == IF opts.Type = <<>> THEN <<84, 69, 88, 84>> ELSE opts.Type
DefaultCreator == IF opts.Creator = <<>> THEN <<75, 65, 72, 76>> ELSE opts.Creator

\* C13: the type, creator and flags of an emitted file entry are those of
\* name.info whenever name.info can be opened and read in full, whatever a
\* sidecar holds; otherwise those of the Finder info entry of the AppleDouble
\* sidecar when there is one; otherwise the type is the -T argument or "TEXT"
\* and the creator is the -C argument or "KAHL".
C13_MetadataSource ==
  Clean =>
    \A i \in EmittedOf("file") :
      LET f == entries[i].file.f
          off == entries[i].off
          ad_meta == read_appledouble_metadata(f.ad)
      IN IF f.info
           THEN /\ TypeAt(off) = InfoHdr.type
                /\ CreatorAt(off) = InfoHdr.creator
                /\ FlagsAt(off) = InfoHdr.flag
         ELSE IF ad_meta.ok
           THEN /\ TypeAt(off) = ad_meta.meta.type
                /\ CreatorAt(off) = ad_meta.meta.creator
                /\ FlagsAt(off) = ad_meta.meta.flags
         ELSE /\ TypeAt(off) = DefaultType
              /\ CreatorAt(off) = DefaultCreator

(* ------------------------------ compression ----------------------------- *)
CompRMethodAt(off) == Field(off, oCompRMethod, 1)[1]
CompDMethodAt(off) == Field(off, oCompDMethod, 1)[1]
\* the writes of fork bytes a call made, and how many bytes they put out
ForkWrites(i, tag) ==
  { j \in DOMAIN wlog : wlog[j].id = entries[i].id /\ wlog[j].tag = tag }
Produced(i, tag) ==
  IF ForkWrites(i, tag) = {} THEN 0
  ELSE wlog[CHOOSE j \in ForkWrites(i, tag) : TRUE].n
\* the forks of a call that went through dofork, with their lengths
DataCompressed(i) ==
  entries[i].file.f.data # "none" /\ entries[i].file.f.dsz > 0
RsrcCompressed(i) == entries[i].file.src \in {"rsrcfile", "namedfork"}
RsrcLenOf(i) ==
  IF entries[i].file.src = "rsrcfile" THEN entries[i].file.f.rsrc
  ELSE entries[i].file.f.nfork

\* C14 (as the code has it): for every fork that went through the
\* compressor, the entry records method 0 exactly when the number of bytes
\* the compressor put out equals the length of the fork, and method 2 (LZW)
\* otherwise, whether the output is shorter or longer than the fork.
C14_MethodByEquality ==
  Clean =>
    \A i \in EmittedOf("file") :
      /\ Cardinality(ForkWrites(i, "data")) <= 1
      /\ Cardinality(ForkWrites(i, "rsrc")) <= 1
      /\ DataCompressed(i) =>
           CompDMethodAt(entries[i].off) =
             (IF Produced(i, "data") = entries[i].file.f.dsz
                THEN noComp ELSE lzwComp)
      /\ RsrcCompressed(i) =>
           CompRMethodAt(entries[i].off) =
             (IF Produced(i, "rsrc") = RsrcLenOf(i) THEN noComp ELSE lzwComp)

\* an archive with a data fork the compressor made longer, recorded as LZW,
\* a resource fork it made shorter, recorded as LZW, and a data fork whose
\* output has the length of the fork, recorded as stored
C14_Witness ==
  /\ Clean
  /\ \E i \in EmittedOf("file") :
       /\ DataCompressed(i) /\ Produced(i, "data") > entries[i].file.f.dsz
       /\ CompDMethodAt(entries[i].off) = lzwComp
       /\ RsrcCompressed(i) /\ Produced(i, "rsrc") < RsrcLenOf(i)
       /\ CompRMethodAt(entries[i].off) = lzwComp
  /\ \E i \in EmittedOf("file") :
       /\ DataCompressed(i) /\ Produced(i, "data") = entries[i].file.f.dsz
       /\ CompDMethodAt(entries[i].off) = noComp

\* C14 as stated: a fork whose compressor output is not shorter than the
\* fork is recorded with method 0, and a method other than 0 is recorded
\* only for output that is shorter.
C14_Original ==
  Clean =>
    \A i \in EmittedOf("file") :
      /\ DataCompressed(i) =>
           (CompDMethodAt(entries[i].off) # noComp
              <=> Produced(i, "data") < entries[i].file.f.dsz)
      /\ RsrcCompressed(i) =>
           (CompRMethodAt(entries[i].off) # noComp
              <=> Produced(i, "rsrc") < RsrcLenOf(i))

DataCRCAt(off) == be16(Field(off, oDataCRC, 2))
\* the bytes of the data fork a call found on disk
DataOnDisk(i) == DataBytes(entries[i].file.f.dsz)

\* C15: with -u, the data fork bytes put_file hands to the compressor are
\* the bytes of the file with every line feed (10) replaced by a carriage
\* return (13) and every other byte as it was, so of the same length, and the
\* dataCRC of the entry is the checksum of that converted sequence from
\* state 0.
C15_ConvertedBytes ==
  Clean /\ opts.unixf =>
    \A i \in EmittedOf("file") :
      DataCompressed(i) =>
        LET fed == entries[i].file.fed
            disk == DataOnDisk(i)
        IN /\ Len(fed) = Len(disk)
           /\ \A k \in 1..Len(disk) :
                fed[k] = IF disk[k] = 10 THEN 13 ELSE disk[k]
           /\ DataCRCAt(entries[i].off) = updcrc(0, fed)

\* with -u, a file holding a line feed was archived, and its dataCRC is not
\* the checksum of the bytes on disk
C15_Witness ==
  /\ Clean /\ opts.unixf
  /\ \E i \in EmittedOf("file") :
       /\ DataCompressed(i)
       /\ \E k \in 1..Len(DataOnDisk(i)) : DataOnDisk(i)[k] = 10
       /\ DataCRCAt(entries[i].off) # updcrc(0, DataOnDisk(i))

(* ------------------------------ plain files ----------------------------- *)
\* a call on a non-empty file that has no sidecar, no name.rsrc, no named
\* fork, no name.info and no name.data
PlainCalls ==
  { i \in FileCalls :
      LET f == entries[i].file.f
      IN /\ ~f.ad.found /\ f.rsrc = 0 /\ f.nfork = 0 /\ ~f.info
         /\ f.data = "plain" /\ f.dsz > 0 /\ ~f.long }

\* C16 (as the code has it): the entry of a non-empty plain file without
\* sidecars has compRMethod 0, and its compDMethod is 0 when the compressed
\* length stored in cDLen equals dLen and 2 (LZW) otherwise.
C16_PlainMethods ==
  Clean =>
    \A i \in PlainCalls :
      /\ entries[i].ret > 0
      /\ CompRMethodAt(entries[i].off) = noComp
      /\ CompDMethodAt(entries[i].off) =
           (IF CDLenAt(entries[i].off) = DLenAt(entries[i].off)
              THEN noComp ELSE lzwComp)

\* a plain file was archived with a data fork the compressor made shorter,
\* recorded as LZW, and no resource fork
C16_Witness ==
  /\ Clean
  /\ \E i \in PlainCalls :
       /\ entries[i].ret > 0
       /\ CDLenAt(entries[i].off) < DLenAt(entries[i].off)
       /\ CompDMethodAt(entries[i].off) = lzwComp
       /\ CompRMethodAt(entries[i].off) = noComp

\* C16 as stated: the entry of every non-empty plain file without sidecars
\* has compRMethod = 0 and compDMethod = 0.
C16_Original ==
  Clean =>
    \A i \in PlainCalls :
      entries[i].ret > 0 =>
        /\ CompRMethodAt(entries[i].off) = noComp
        /\ CompDMethodAt(entries[i].off) = noComp

\* the header writes of a call: the placeholder, the finished header
HeaderWrites(i, tag) ==
  { j \in DOMAIN wlog : wlog[j].id = entries[i].id /\ wlog[j].tag = tag }

\* C17: for a non-empty plain file without sidecars exactly one entry header
\* is emitted (one finished header, written where the placeholder was), it
\* has rLen = 0 and cRLen = 0, no resource fork bytes are written, and its
\* dLen is the size of the file.
C17_PlainEntry ==
  Clean =>
    \A i \in PlainCalls :
      /\ entries[i].ret > 0
      /\ Cardinality(HeaderWrites(i, "final")) = 1
      /\ Cardinality(HeaderWrites(i, "empty")) = 1
      /\ \A j \in HeaderWrites(i, "final") \cup HeaderWrites(i, "empty") :
           wlog[j].off = entries[i].off /\ wlog[j].n = FileHdrSize
      /\ Cardinality({ k \in DOMAIN entries : entries[k].id = entries[i].id }) = 1
      /\ RLenAt(entries[i].off) = 0 /\ CRLenAt(entries[i].off) = 0
      /\ RsrcWrites(i) = {}
      /\ entries[i].file.src = "none"
      /\ DLenAt(entries[i].off) = entries[i].file.f.dsz

\* a finished archive holding the entries of two plain files
C17_Witness ==
  /\ Completed
  /\ \E i, k \in PlainCalls :
       /\ i # k /\ entries[i].ret > 0 /\ entries[k].ret > 0
       /\ DLenAt(entries[i].off) = 2 /\ DLenAt(entries[k].off) = 2

(* -------------------------------- layout -------------------------------- *)
\* the closed folders inside another folder that had nothing archived in
\* them: no call between their open and their close emitted an entry
EmptyNested ==
  { i \in Closed :
      /\ entries[i].depth >= 1
      /\ OpenOf(i).ret > 0
      /\ \A k \in (entries[i].open + 1)..(i - 1) : entries[k].ret = 0 }

\* C18: a directory nested in another directory and with no archived
\* contents has exactly two entry headers, its open and its close, the close
\* starting where the open ends, and both carry dLen = cDLen = 112.
C18_EmptyNestedFolder ==
  Clean =>
    \A i \in EmptyNested :
      LET c == entries[i]
          o == OpenOf(i)
      IN /\ c.off = o.off + FileHdrSize
         /\ DLenAt(o.off) = FileHdrSize /\ CDLenAt(o.off) = FileHdrSize
         /\ DLenAt(c.off) = FileHdrSize /\ CDLenAt(c.off) = FileHdrSize

\* the bytes an emitted entry takes up in a walk: its header and, for a file
\* entry, the cRLen and cDLen bytes its header announces
WalkSize(i) ==
  IF entries[i].kind = "file"
    THEN FileHdrSize + CRLenAt(entries[i].off) + CDLenAt(entries[i].off)
    ELSE FileHdrSize
\* the emitted entry that follows emitted entry i in the archive
NextEmitted(i, k) ==
  /\ k \in Emitted /\ i < k
  /\ \A l \in Emitted : ~(i < l /\ l < k)

\* C19: the finished archive can be walked header by header: the first
\* entry header is at byte 22, each file entry header is followed by cRLen
\* bytes of resource fork and cDLen bytes of data fork and then by the next
\* header, folder headers are followed at once by the next header, the last
\* entry ends where the archive ends, and put_file returns
\* 112 + cRLen + cDLen.
C19_Walkable ==
  Completed =>
    /\ \A i \in Emitted :
         /\ (\A l \in Emitted : i <= l) => entries[i].off = SitHdrSize
         /\ \A k \in Emitted :
              NextEmitted(i, k) => entries[k].off = entries[i].off + WalkSize(i)
         /\ (\A l \in Emitted : l <= i) =>
              entries[i].off + WalkSize(i) = Len(out)
         /\ entries[i].kind = "file" => entries[i].ret = WalkSize(i)
    /\ Emitted = {} => Len(out) = SitHdrSize

(* ----------------------------- the transcoder --------------------------- *)
\* the transcoder has been applied to fsName
Transcoded == macName # <<>>
\* fsName holds only ASCII bytes and no colon
PlainAscii == \A k \in 1..Len(fsName) : fsName[k] < 128 /\ fsName[k] # 58

\* C20: for a name made of ASCII bytes only, none of them ':', the
\* transcoder stores the first min(length, 63) bytes of the name unchanged,
\* preceded by a length byte equal to that count.
C20_AsciiUnchanged ==
  Transcoded /\ PlainAscii =>
    /\ macName[1] = Min(Len(fsName), MaxNameLen)
    /\ Len(macName) = macName[1] + 1
    /\ \A k \in 1..macName[1] : macName[k + 1] = fsName[k]

\* an ASCII name longer than the field was transcoded and cut at 63 bytes
C20_Witness ==
  /\ Transcoded /\ PlainAscii
  /\ Len(fsName) > MaxNameLen /\ macName[1] = MaxNameLen
  /\ \E k \in 1..Len(fsName) : fsName[k] = 47

\* how often byte b occurs in s
Count(s, b) == Cardinality({ k \in 1..Len(s) : s[k] = b })
\* the input bytes the transcoder looks at, and the data bytes it stored
Window == SubSeq(fsName, 1, Min(Len(fsName), MaxNameLen))
NameData == SubSeq(macName, 2, Len(macName))

\* C21: for every name, no ':' (0x3A) is among the data bytes the transcoder
\* stores, and every ':' it consumed came out as '/': the stored bytes hold
\* as many '/' as the consumed bytes hold ':' and '/' together.
C21_NoColon ==
  Transcoded =>
    /\ \A k \in 1..Len(NameData) : NameData[k] # 58
    /\ Count(NameData, 47) = Count(Window, 58) + Count(Window, 47)

\* a name with colons, slashes and a two-byte character was transcoded
C21_Witness ==
  /\ Transcoded
  /\ Count(Window, 58) > 0 /\ Count(Window, 47) > 0
  /\ \E k \in 1..Len(fsName) : fsName[k] >= 128
  /\ Count(NameData, 47) = 2

\* the table rows that start with the byte of pass t and agree with the
\* bytes of the name that follow it
RowsAt(t) ==
  { i \in 1..Len(hiBitCharMap) :
      /\ hiBitCharMap[i][1] = t.c
      /\ hiBitCharMap[i][2] = At(fsName, t.p + 1)
      /\ hiBitCharMap[i][3] \in {0, At(fsName, t.p + 2)} }
RowLen(i) == IF hiBitCharMap[i][3] = 0 THEN 2 ELSE 3
\* pass t stands on a byte that begins a table sequence which the remaining
\* bytes of the window cannot complete
CutShort(t) ==
  /\ t.c >= 128
  /\ \E i \in 1..Len(hiBitCharMap) :
       /\ hiBitCharMap[i][1] = t.c
       /\ t.remaining >= 2 => hiBitCharMap[i][2] = fsName[t.p + 1]
       /\ RowLen(i) > t.remaining
  /\ \A i \in RowsAt(t) : RowLen(i) > t.remaining

\* C22: when a byte of 0x80 or more begins a 2- or 3-byte table sequence and
\* fewer bytes remain in the 63-byte window than the sequence needs, the
\* byte is stored as it is and one input byte is consumed; the passes
\* consume the window from its first byte to its last and nothing more, and
\* no byte past the window is read.
C22_CutSequence ==
  Transcoded =>
    /\ \A k \in 1..Len(nameTrace) :
         LET t == nameTrace[k]
         IN /\ t.p = (IF k = 1 THEN 1
                      ELSE nameTrace[k - 1].p + nameTrace[k - 1].used)
            /\ t.p + t.used - 1 <= Len(Window)
            /\ t.read <= Len(Window)
            /\ CutShort(t) => t.used = 1 /\ t.out = t.c
    /\ nameTrace # <<>> =>
         LET t == nameTrace[Len(nameTrace)]
         IN t.p + t.used - 1 = Len(Window)
    /\ nameTrace = <<>> => Window = <<>>
    /\ Len(NameData) = Len(nameTrace)

\* a name longer than the window whose three-byte character straddles the
\* end of the window: its first two bytes are the last two of the window
C22_Witness ==
  /\ Transcoded /\ Len(fsName) > MaxNameLen
  /\ \E k \in 1..Len(nameTrace) :
       LET t == nameTrace[k]
       IN /\ CutShort(t) /\ t.remaining = 2 /\ t.c = 226
          /\ fsName[t.p + 1] = 128 /\ fsName[t.p + 2] = 160
          /\ t.out = 226 /\ macName[Len(macName)] = 128

\* the transcoding of a whole name, were the field long enough for it
FullName(name) == convertFilesystemNameToMacRoman(name, Len(name))
FullData(name) == SubSeq(FullName(name), 2, Len(FullName(name)))

\* C27 (as the code has it): the transcoder stores the transcoding of the
\* first min(63, length) bytes of the name; the rest of the name is not
\* looked at.  The length byte is the number of bytes stored and is never
\* above 63, so the 64-byte name field is never overrun.
C27_WindowOnInput ==
  Transcoded =>
    /\ NameData = FullData(Window)
    /\ macName[1] = Len(NameData)
    /\ macName[1] <= MaxNameLen /\ Len(macName) <= MaxNameLen + 1

\* a name of more than 63 bytes with two-byte characters was transcoded:
\* fewer than 63 bytes were stored, though the whole name transcodes to more
C27_Witness ==
  /\ Transcoded /\ Len(fsName) > MaxNameLen
  /\ macName[1] < MaxNameLen
  /\ Len(FullData(fsName)) > macName[1]
  /\ NameData = SubSeq(FullData(fsName), 1, macName[1])

\* C27 as stated: the data bytes are the first min(63, L) bytes of the
\* transcoding of the whole name, L being its length, and the length byte
\* is min(63, L).
C27_Original ==
  Transcoded =>
    LET full == FullData(fsName)
        n == Min(MaxNameLen, Len(full))
    IN /\ macName[1] = n
       /\ NameData = SubSeq(full, 1, n)
       /\ macName[1] <= MaxNameLen

(* --------------------------- the sidecar parser ------------------------- *)
Parsed == adResult.ret # 1
\* descriptor k (from 1) of the file, when all its 12 bytes are there
DescriptorAt(k) == SubSeq(adBytes, 26 + 12 * (k - 1) + 1, 26 + 12 * k)
\* the descriptors the parser may use: within the count declared at byte 24
\* and whole, as is every descriptor before them
Usable ==
  IF Len(adBytes) < 26 THEN {}
  ELSE { k \in 1..be16(SubSeq(adBytes, 25, 26)) : Len(adBytes) >= 26 + 12 * k }
\* the usable descriptors that carry the id asked for
Matching == { k \in Usable : SubSeq(DescriptorAt(k), 1, 4) = cp4(adWant) }
MagicOk == Len(adBytes) >= 26 /\ SubSeq(adBytes, 1, 4) = cp4(AS_MAGIC_AD)

\* C23: for any file and any id asked for, the parser returns 0 with the
\* offset and size of the first descriptor, in table order and within the
\* declared count, that carries the id, whatever the order of the ids; it
\* returns -1 when fewer than 26 bytes can be read, when the magic number is
\* not 0x00051607, when the table ends before a match, and when no
\* descriptor matches.
C23_FirstMatch ==
  Parsed =>
    /\ adResult.ret \in {0, -1}
    /\ adResult.ret = 0 <=> MagicOk /\ Matching # {}
    /\ adResult.ret = 0 =>
         LET k == CHOOSE m \in Matching : \A j \in Matching : m <= j
         IN /\ adResult.entry.id = cp4(adWant)
            /\ adResult.entry.offset = SubSeq(DescriptorAt(k), 5, 8)
            /\ adResult.entry.size = SubSeq(DescriptorAt(k), 9, 12)
    /\ adResult.ret = -1 => adResult.entry = NoEntry

\* the resource fork entry was found as the third descriptor, after a
\* Finder info entry, in a file that declares four descriptors and ends
\* after the third
C23_Witness ==
  /\ Parsed /\ adResult.ret = 0 /\ adWant = RESOURCE_FORK_ID
  /\ Matching = {3} /\ be16(SubSeq(adBytes, 25, 26)) = 4
  /\ Len(adBytes) < 26 + 12 * 4
  /\ SubSeq(DescriptorAt(1), 1, 4) = cp4(FINDER_INFO_ID)
  /\ adResult.entry.offset = cp4(103)

(* ----------------------------- temporary files -------------------------- *)
\* C24: when the fork transfer step returns, on any path, every temporary
\* file it made (the conversion file, the compressor's output file) has been
\* removed: no put_file call leaves a temporary file behind.
C24_TempFilesRemoved ==
  \A i \in FileCalls : entries[i].file.left = 0

(* -------------------------------- nesting ------------------------------- *)
\* the emitted headers that are folder markers, as the archive has them
OpenMarks == { i \in Emitted : CompRMethodAt(entries[i].off) = startFolder }
CloseMarks == { i \in Emitted : CompRMethodAt(entries[i].off) = endFolder }
\* how many folders are open just before header i
MarkDepth(i) ==
  Cardinality({ k \in OpenMarks : k < i }) - Cardinality({ k \in CloseMarks : k < i })
\* the close that matches open mark o: the first later close that brings
\* the depth back to the depth before o
MatchesOf(o) ==
  { c \in CloseMarks :
      /\ o < c /\ MarkDepth(c) = MarkDepth(o) + 1
      /\ \A k \in CloseMarks : o < k /\ k < c => MarkDepth(k) # MarkDepth(o) + 1 }
NameAt(off) == Field(off, oFName, 64)

\* C28: in the finished archive the folder-open (32) and folder-close (33)
\* headers nest like brackets: every open has exactly one matching close
\* after it, with the same name; no close comes before its open; the headers
\* of everything archived from a directory lie between its open and its
\* close; and the depth of the markers around a header is the depth of the
\* directory the entry was found in.
C28_Nesting ==
  Completed =>
    /\ \A o \in OpenMarks :
         /\ Cardinality(MatchesOf(o)) = 1
         /\ \A c \in MatchesOf(o) :
              /\ NameAt(entries[c].off) = NameAt(entries[o].off)
              /\ entries[c].open = o
              /\ entries[o].off < entries[c].off
    /\ \A c \in CloseMarks : MarkDepth(c) >= 1 /\ \E o \in OpenMarks : c \in MatchesOf(o)
    /\ \A i \in Emitted :
         /\ entries[i].depth =
              (IF i \in CloseMarks THEN MarkDepth(i) - 1 ELSE MarkDepth(i))
         /\ i \in OpenMarks <=> entries[i].kind = "open"
         /\ i \in CloseMarks <=> entries[i].kind = "close"
    /\ Cardinality(OpenMarks) = Cardinality(CloseMarks)

\* a finished archive of a directory that holds a directory which holds a
\* file, followed by a file named on the command line
C28_Witness ==
  /\ Completed
  /\ \E o1, o2 \in OpenMarks, f1, f2 \in EmittedOf("file") :
       /\ o1 < o2 /\ o2 < f1 /\ f1 < f2
       /\ MarkDepth(o2) = 1 /\ MarkDepth(f1) = 2 /\ MarkDepth(f2) = 0
       /\ \A c \in MatchesOf(o2) : f1 < c /\ c < f2
       /\ NameAt(entries[o1].off) # NameAt(entries[o2].off)

(* ----------------------------- back-patching ---------------------------- *)
\* the end of the archive just before write j: the highest offset written
EndBefore(j) ==
  LET ends == { wlog[k].off + wlog[k].n : k \in 1..(j - 1) }
  IN IF ends = {} THEN 0 ELSE CHOOSE e \in ends : \A x \in ends : x <= e
\* write j of an entry lands below the end of the archive
BelowEnd(j) == wlog[j].id # 0 /\ wlog[j].off < EndBefore(j)
\* an entry header was reserved at the offset of write j before it
ReservedBefore(j) ==
  \E k \in 1..(j - 1) :
    /\ wlog[k].tag = "empty" /\ wlog[k].off = wlog[j].off
    /\ wlog[k].n = FileHdrSize

\* C30: back-patching never damages payload: whenever put_file or
\* put_folder_entry has returned, on success or on an error, the write cursor
\* is at the end of the archive; and every write of an entry that lands below
\* the end of the archive covers exactly the 112 bytes of an entry header
\* reserved before it.
C30_PatchesOnlyHeaders ==
  /\ pc = "loop" /\ entries # <<>> => pos = Len(out)
  /\ \A j \in DOMAIN wlog :
       BelowEnd(j) => wlog[j].n = FileHdrSize /\ ReservedBefore(j)

(* ------------------------------ the traversal --------------------------- *)
\* the directories above object n, and so its real depth in the tree
RECURSIVE Ancestors(_)
Ancestors(n) ==
  IF fsTree[n].parent = 0 THEN {}
  ELSE {fsTree[n].parent} \cup Ancestors(fsTree[n].parent)
RealDepth(n) == Cardinality(Ancestors(n))

\* what the walk has done so far is what the tree is: only objects that are
\* directories themselves were entered, every link was handed to put_file,
\* nothing was met twice, every object was met at its real depth, and the
\* calls in progress are the chain of directories down to the one being read
WalkSound ==
  /\ \A k \in DOMAIN walkLog :
       LET v == walkLog[k]
       IN /\ v.as = "folder" => fsTree[v.node].kind \in {"dir", "locked"}
          /\ fsTree[v.node].kind = "link" => v.as = "file"
          /\ v.depth = RealDepth(v.node)
          /\ \A j \in DOMAIN walkLog : walkLog[j].node = v.node => j = k
  /\ \A k \in DOMAIN walkStack :
       /\ RealDepth(walkStack[k].dir) = k - 1
       /\ walkStack[k].level = k
       /\ k > 1 => fsTree[walkStack[k].dir].parent = walkStack[k - 1].dir

IsHeader(l) == l.kind = "header"
IsBody(l) == l.kind = "body"
\* the part numbers announced in the article
Announced == { article[k].part : k \in { i \in DOMAIN article : IsHeader(article[i]) } }
TimesAnnounced(n) ==
  Cardinality({ k \in DOMAIN article : IsHeader(article[k]) /\ article[k].part = n })
\* every part 1..max_part is announced by exactly one header
EachOnce ==
  /\ filt.max_part >= 1
  /\ \A n \in 1..filt.max_part : TimesAnnounced(n) = 1
\* the body lines of part n as the article has them
BodyOf(n) == SelectSeq(article, LAMBDA l : IsBody(l) /\ l.part = n)
RECURSIVE PartsFrom(_)
PartsFrom(n) == IF n > filt.max_part THEN <<>> ELSE BodyOf(n) \o PartsFrom(n + 1)

\* C25: when every part 1..max_part is announced exactly once, in whatever
\* order the parts arrive, standard output holds after the banner the body
\* lines of part 1, then those of part 2, and so on, each line once.
C25_PartsInOrder ==
  filt.pc = "exit" /\ EachOnce => filt.stdout = <<"banner">> \o PartsFrom(1)

\* four parts that arrived with the first part last, two of them through
\* part files
C25_Witness ==
  /\ filt.pc = "exit" /\ EachOnce /\ filt.max_part = MaxParts
  /\ article[Len(article)].part = 1
  /\ Cardinality({ n \in DOMAIN filt.parts : filt.parts[n].closed }) >= 2
  /\ ~filt.stale

\* C26: at the end of the run a "Missing part n" line is on standard error
\* and the exit status is not 0 exactly when some part in 1..max_part was
\* never announced; with every part present, in any order, the status is 0.
C26_MissingIffAbsent ==
  filt.pc = "exit" =>
    LET absent == \E n \in 1..filt.max_part : n \notin Announced
        told == \E k \in DOMAIN filt.stderr : filt.stderr[k].msg = "missing"
    IN /\ told <=> absent
       /\ filt.rc # 0 <=> absent

(* ------------------------- the conversion toggle ------------------------ *)
\* a field of the entry header a put_file call left in its archive
FieldOf(r, o, n) == SubSeq(r.m.out, r.fpos1 + o + 1, r.fpos1 + o + n)
\* the bytes a call wrote for the resource fork, write by write
RsrcBytesOf(r) ==
  LET ws == SelectSeq(r.m.wlog, LAMBDA w : w.tag = "rsrc")
  IN [k \in DOMAIN ws |-> SubSeq(r.m.out, ws[k].off + 1, ws[k].off + ws[k].n)]
BothRun == runOff # NotRun /\ runOn # NotRun

\* C31: the -u conversion touches the data fork only: for a file whose
\* resource fork is found by any of the strategies, the resource bytes
\* written, rLen, cRLen and rsrcCRC are the same with -u and without.
C31_ToggleLeavesRsrc ==
  BothRun /\ (runOff.src # "none" \/ runOn.src # "none") =>
    /\ runOn.src = runOff.src
    /\ RsrcBytesOf(runOn) = RsrcBytesOf(runOff)
    /\ FieldOf(runOn, oRLen, 4) = FieldOf(runOff, oRLen, 4)
    /\ FieldOf(runOn, oCRLen, 4) = FieldOf(runOff, oCRLen, 4)
    /\ FieldOf(runOn, oRsrcCRC, 2) = FieldOf(runOff, oRsrcCRC, 2)

\* both calls archived a file whose resource fork came from name.rsrc and
\* holds a line feed, and -u changed the checksum of its data fork
C31_Witness ==
  /\ BothRun /\ runOff.src = "rsrcfile" /\ runOn.ret > 0 /\ runOff.ret > 0
  /\ pairFile.rsrc >= 2
  /\ RsrcBytesOf(runOff) # <<>>
  /\ FieldOf(runOn, oDataCRC, 2) # FieldOf(runOff, oDataCRC, 2)

(* --------------------------- sidecar resources -------------------------- *)
\* the calls made so far
RunsMade == { r \in {runOff, runOn} : r # NotRun }
\* the resource bytes the sidecar of the file really holds
SidecarData == find_appledouble_entry(pairFile.ad, RESOURCE_FORK_ID).entry.data
\* all the resource bytes a call wrote, in order
RECURSIVE Joined(_)
Joined(ss) == IF ss = <<>> THEN <<>> ELSE Head(ss) \o Joined(Tail(ss))

\* C32: a resource fork taken from an AppleDouble sidecar is copied to the
\* archive as it is, not through the compressor, and the entry records
\* method 0 for it, also when the count of bytes copied is not the size the
\* descriptor gave (the size mismatch warning).
C32_SidecarStored ==
  \A r \in RunsMade :
    r.src = "appledouble" =>
      /\ Joined(RsrcBytesOf(r)) = SidecarData
      /\ FieldOf(r, oCompRMethod, 1) = <<noComp>>

====
